---- MODULE Spec2Model ----
(***************************************************************************)
(* Verification model of the assessment engine: the SignalBus (dispatch,   *)
(* cache, telemetry), the per-subscription fan-out providers and their     *)
(* merge, the evaluator registry, the scoring adapter and the scoring      *)
(* engine.                                                                 *)
(***************************************************************************)
EXTENDS Integers, Sequences, FiniteSets, TLC

VARIABLES
    cache,      \* SignalBus.cache: key -> [result, stored_at]
    events,     \* SignalBus.events
    now,        \* wall clock, in freshness units
    log,        \* history: one record per SignalBus.fetch call
    ctl,        \* history: one record per evaluate_control call
    thr,        \* concurrent fetch: per-thread position and locals
    writes,     \* concurrent fetch: order in which threads reached cache.put
    rows,       \* run_evaluators_for_scoring: input and returned list
    sc,         \* scoring engine: input rows and computed blocks
    scan,       \* scan.py main: position in the full-scan pipeline and its trace
    call        \* one application of a pure function: its input and its result

vars == <<cache, events, now, log, ctl, thr, writes, rows, sc, scan, call>>

(***************************************************************************)
(* Bounds                                                                  *)
(***************************************************************************)
MaxOps == 2         \* fetch calls issued on one bus
MaxTime == 2        \* clock ticks observed in one run
MaxEvals == 1       \* evaluate_control calls issued on one bus
MaxEvaluators == 2  \* evaluators registered for one scoring run
MaxChecklist == 2   \* items of the checklist handed to one scoring run
MaxRows == 2        \* result rows handed to compute_scoring
MaxExtra == 2       \* SignalError rows appended to them

None == "None"

\* A raw dict without a _subscription_id key (read back as "unknown").
NoSub == 0

\* freshness_seconds=None
NoFreshness == -1

\* Fixed error_msg texts; a per-subscription message is the subscription id.
MsgNoResults == 101         \* "No subscription results"
MsgNoSubscriptions == 102   \* "No subscriptions in scope"
MsgUnknownSignal == 103     \* "Unknown signal: ..."

(***************************************************************************)
(* signals/types.py                                                        *)
(***************************************************************************)
SignalStatus == {"OK", "NotAvailable", "Error", "SignalError"}

\* SignalResult(signal_name, status, items, raw, error_msg, duration_ms).
\* items carries the subscription each record came from; raw keeps the
\* fields the bus and the merge write.
SignalResult(name, status, items, raw, msg, ms) ==
    [signal_name |-> name, status |-> status, items |-> items,
     raw |-> raw, error_msg |-> msg, duration_ms |-> ms]

EmptyRaw ==
    [_subscription_id |-> NoSub, _subscriptions_assessed |-> 0,
     _subscription_errors |-> 0, _per_subscription |-> <<>>]

EvalScope(tenant, mg, subs, rg) ==
    [tenant_id |-> tenant, management_group_id |-> mg,
     subscription_ids |-> subs, resource_group |-> rg]

SubIds == {1, 2}

\* Scopes an operation can be issued with.
Scopes ==
    { EvalScope("t1", None, <<1, 2>>, None),
      EvalScope("t1", None, <<2, 1>>, None),
      EvalScope("t1", None, <<1>>, None),
      EvalScope("t1", None, <<>>, None),
      EvalScope("t2", None, <<1, 2>>, None),
      EvalScope("t1", "mg1", <<1, 2>>, None),
      EvalScope("t1", None, <<1, 2>>, "rg1") }

(***************************************************************************)
(* External provider functions (the signals/providers package): one call   *)
(* returns an OK result, returns an Error result, or raises.               *)
(***************************************************************************)
CallOutcomes == {"OK", "Error", "Raise"}

\* Duration reported by one successful provider call.
CallMs == 3

\* What the environment does during one provider dispatch: the outcome of
\* the call made for each subscription and the order of completion.
Behaviours == [out : [SubIds -> CallOutcomes], rev : BOOLEAN]

Raised == [kind |-> "raise"]
Returned(r) == [kind |-> "return", res |-> r]

\* fetch_fn(sub): the result of one per-subscription call.
FetchFn(beh, sub) ==
    CASE beh.out[sub] = "OK" ->
            Returned(SignalResult("", "OK", <<sub>>, EmptyRaw, <<>>, CallMs))
      [] beh.out[sub] = "Error" ->
            Returned(SignalResult("", "Error", <<>>, EmptyRaw, <<sub>>, 0))
      [] OTHER -> Raised

\* fetch_fn(subs): one cross-subscription call over the whole id list.
FetchFnAll(beh, subs) ==
    CASE beh.out[subs[1]] = "OK" ->
            Returned(SignalResult("", "OK", subs, EmptyRaw, <<>>, CallMs))
      [] beh.out[subs[1]] = "Error" ->
            Returned(SignalResult("", "Error", <<>>, EmptyRaw, <<subs[1]>>, 0))
      [] OTHER -> Raised

(***************************************************************************)
(* signals/registry.py: merge of per-subscription results                  *)
(***************************************************************************)
\* round(n / d * scale) to the nearest integer, ties to even.
RoundRatio(n, d, scale) ==
    LET q == (n * scale) \div d
        r == (n * scale) % d
    IN  IF 2 * r > d THEN q + 1
        ELSE IF 2 * r < d THEN q
        ELSE IF q % 2 = 0 THEN q ELSE q + 1

RECURSIVE SumMs(_)
SumMs(rs) == IF rs = <<>> THEN 0 ELSE Head(rs).duration_ms + SumMs(Tail(rs))

RECURSIVE ConcatItems(_)
ConcatItems(rs) == IF rs = <<>> THEN <<>> ELSE Head(rs).items \o ConcatItems(Tail(rs))

RECURSIVE ConcatMsgs(_)
ConcatMsgs(rs) == IF rs = <<>> THEN <<>> ELSE Head(rs).error_msg \o ConcatMsgs(Tail(rs))

\* s[:n]
Take(s, n) == SubSeq(s, 1, IF Len(s) < n THEN Len(s) ELSE n)

\* Every result that is not an Error taken for an OK one.
IsNotError(r) == r.status # "Error"

IsOK(r) == r.status = "OK"
IsError(r) == r.status = "Error"

\* The _per_subscription breakdown: one entry per input, in input order.
PerSub(results) ==
    [i \in DOMAIN results |->
        [subscription_id |-> results[i].raw._subscription_id,
         status |-> results[i].status,
         item_count |-> Len(results[i].items)]]

\* Keys a provider puts into raw: booleans, counts, percentages (in tenths
\* of a percent) and the nested coverage dict (ratio in ten-thousandths).
BoolKeys == {"is_centralized", "sentinel_enabled"}
IntKeys ==
    {"max_retention_days", "workspace_count",
     "noncompliant_resources", "total_resources", "compliance_percent",
     "diag_enabled_count", "sample_size", "diag_coverage_percent"}
DictKeys == {"coverage"}

RECURSIVE SumKey(_, _)
SumKey(raw_list, key) ==
    IF raw_list = <<>> THEN 0
    ELSE (IF key \in DOMAIN Head(raw_list) THEN Head(raw_list)[key] ELSE 0)
         + SumKey(Tail(raw_list), key)

RECURSIVE SumCoverage(_, _)
SumCoverage(raw_list, field) ==
    IF raw_list = <<>> THEN 0
    ELSE (IF "coverage" \in DOMAIN Head(raw_list)
          THEN Head(raw_list).coverage[field] ELSE 0)
         + SumCoverage(Tail(raw_list), field)

\* The "coverage" branch: applicable and compliant summed, ratio recomputed.
MergeCoverage(raw_list) ==
    LET total_app == SumCoverage(raw_list, "applicable")
        total_comp == SumCoverage(raw_list, "compliant")
    IN  [applicable |-> total_app,
         compliant |-> total_comp,
         ratio |-> RoundRatio(total_comp, IF total_app >= 1 THEN total_app ELSE 1, 10000)]

\* _merge_raw_dicts on the provider's keys: a key is merged over the dicts
\* that hold it, bool by any(), int and float by sum(), coverage by its own
\* branch.
MergeProviderKeys(raw_list) ==
    [key \in {k \in BoolKeys \cup IntKeys \cup DictKeys :
                 \E i \in DOMAIN raw_list : k \in DOMAIN raw_list[i]} |->
        IF key \in BoolKeys
        THEN \E i \in DOMAIN raw_list :
                key \in DOMAIN raw_list[i] /\ raw_list[i][key]
        ELSE IF key \in DictKeys THEN MergeCoverage(raw_list)
        ELSE SumKey(raw_list, key)]

\* One entry of _PERCENT_RECOMPUTE applied to merged: the value of the
\* percent field pf after the loop.
RecomputedPercent(merged, pf, num_field, denom_field) ==
    IF denom_field \in DOMAIN merged /\ merged[denom_field] > 0
    THEN LET denom == merged[denom_field]
             num == IF num_field \in DOMAIN merged THEN merged[num_field] ELSE 0
         IN  IF pf = "compliance_percent"
             THEN RoundRatio(denom - num, denom, 1000)
             ELSE RoundRatio(num, denom, 1000)
    ELSE merged[pf]

\* The recompute loop over _PERCENT_RECOMPUTE.
RecomputePercents(merged) ==
    [key \in DOMAIN merged |->
        CASE key = "compliance_percent" ->
                RecomputedPercent(merged, key, "noncompliant_resources", "total_resources")
          [] key = "diag_coverage_percent" ->
                RecomputedPercent(merged, key, "diag_enabled_count", "sample_size")
          [] OTHER -> merged[key]]

\* _merge_raw_dicts restricted to the fields of the modelled raw dict:
\* _subscription_id is a string, so the first non-empty value wins.
MergeRawDicts(raw_list) ==
    IF raw_list = <<>> THEN EmptyRaw
    ELSE IF Len(raw_list) = 1 THEN raw_list[1]
    ELSE LET nonEmpty == SelectSeq(raw_list, LAMBDA d : d._subscription_id # NoSub)
         IN  RecomputePercents(
                 [EmptyRaw EXCEPT !._subscription_id =
                     IF nonEmpty = <<>> THEN NoSub ELSE nonEmpty[1]._subscription_id]
                 @@ MergeProviderKeys(raw_list))

\* _merge_signal_results
MergeSignalResults(results) ==
    IF results = <<>> THEN
        SignalResult("", "NotAvailable", <<>>, EmptyRaw, <<MsgNoResults>>, 0)
    ELSE IF Len(results) = 1 THEN results[1]
    ELSE
        LET ok_results  == SelectSeq(results, IsOK)
            err_results == SelectSeq(results, IsError)
            total_ms    == SumMs(results)
        IN  IF ok_results = <<>> THEN
                SignalResult(results[1].signal_name, "Error", <<>>, EmptyRaw,
                             ConcatMsgs(err_results), total_ms)
            ELSE
                LET raw_list == [i \in DOMAIN ok_results |-> ok_results[i].raw]
                    merged_raw ==
                        [MergeRawDicts(raw_list) EXCEPT
                            !._subscriptions_assessed = Len(ok_results),
                            !._subscription_errors = Len(err_results),
                            !._per_subscription = PerSub(results)]
                IN  SignalResult(ok_results[1].signal_name, "OK",
                                 ConcatItems(ok_results), merged_raw,
                                 ConcatMsgs(Take(err_results, 3)), total_ms)

(***************************************************************************)
(* signals/registry.py: provider wrappers                                  *)
(***************************************************************************)
NoSubscriptions(name) ==
    SignalResult(name, "NotAvailable", <<>>, EmptyRaw, <<MsgNoSubscriptions>>, 0)

Reverse(s) == [i \in DOMAIN s |-> s[Len(s) + 1 - i]]

\* Order in which as_completed yields the submitted futures.
Completion(beh, subs) == IF beh.rev THEN Reverse(subs) ELSE subs

\* _rg_provider(fetch_fn)._inner
RgProvider(beh, scope) ==
    LET subs == scope.subscription_ids
    IN  IF subs = <<>> THEN Returned(NoSubscriptions(""))
        ELSE FetchFnAll(beh, subs)

\* The body of the as_completed loop of _multi_sub_provider: one future's
\* result tagged with its subscription, or the Error result that stands in
\* for its exception.
MultiSubCollect(beh, sub_id) ==
    LET f == FetchFn(beh, sub_id)
    IN  IF f.kind = "return"
        THEN [f.res EXCEPT !.raw._subscription_id = sub_id]
        ELSE SignalResult("", "Error", <<>>,
                          [EmptyRaw EXCEPT !._subscription_id = sub_id],
                          <<sub_id>>, 0)

\* _multi_sub_provider(fetch_fn, merge_fn=None)._inner
MultiSubProvider(beh, scope) ==
    LET subs == scope.subscription_ids
    IN  IF subs = <<>> THEN Returned(NoSubscriptions(""))
        ELSE IF Len(subs) = 1 THEN
            LET f == FetchFn(beh, subs[1])
            IN  IF f.kind = "raise" THEN Raised
                ELSE Returned([f.res EXCEPT !.raw._subscription_id = subs[1]])
        ELSE
            LET done == Completion(beh, subs)
                results == [i \in DOMAIN done |-> MultiSubCollect(beh, done[i])]
            IN  Returned(MergeSignalResults(results))

DiagName == "monitor:diag_coverage_sample"

\* The body of the as_completed loop of _diag_provider.
DiagCollect(beh, sub_id) ==
    LET f == FetchFn(beh, sub_id)
    IN  IF f.kind = "return" THEN f.res
        ELSE SignalResult(DiagName, "Error", <<>>, EmptyRaw, <<sub_id>>, 0)

\* _diag_provider
DiagProvider(beh, scope) ==
    LET subs == scope.subscription_ids
    IN  IF subs = <<>> THEN Returned(NoSubscriptions(DiagName))
        ELSE IF Len(subs) = 1 THEN FetchFn(beh, subs[1])
        ELSE
            LET done == Completion(beh, subs)
                results == [i \in DOMAIN done |-> DiagCollect(beh, done[i])]
            IN  Returned(MergeSignalResults(results))

\* SIGNAL_PROVIDERS: one signal of each wrapper family.
SIGNAL_PROVIDERS ==
    [n \in {"resource_graph:vnets", "resource_graph:public_ips",
             "policy:assignments", DiagName} |->
        CASE n \in {"resource_graph:vnets", "resource_graph:public_ips"} -> "rg"
          [] n = "policy:assignments" -> "multi"
          [] OTHER -> "diag"]

UnknownName == "unknown:signal"
SignalNames == DOMAIN SIGNAL_PROVIDERS \cup {UnknownName}
FanOutNames == {"policy:assignments", DiagName}

\* The behaviours that differ in what one dispatch of the named signal over
\* the scope can observe: calls that are not made are left at "OK", and the
\* completion order is drawn only where several futures are awaited.
Relevant(name, scope) ==
    LET subs == scope.subscription_ids
        called == IF name \notin DOMAIN SIGNAL_PROVIDERS \/ subs = <<>> THEN {}
                  ELSE IF SIGNAL_PROVIDERS[name] = "rg" THEN {subs[1]}
                  ELSE {subs[i] : i \in DOMAIN subs}
        ordered == /\ name \in DOMAIN SIGNAL_PROVIDERS
                   /\ SIGNAL_PROVIDERS[name] # "rg"
                   /\ Len(subs) > 1
    IN  {b \in Behaviours :
            /\ \A x \in SubIds \ called : b.out[x] = "OK"
            /\ b.rev => ordered}

\* provider(scope) for the provider registered under a name.
Provider(name, beh, scope) ==
    CASE SIGNAL_PROVIDERS[name] = "rg" -> RgProvider(beh, scope)
      [] SIGNAL_PROVIDERS[name] = "multi" -> MultiSubProvider(beh, scope)
      [] OTHER -> DiagProvider(beh, scope)

(***************************************************************************)
(* SignalCache (signals/cache.py): freshness-aware store keyed by          *)
(* (signal name, normalized scope).                                        *)
(***************************************************************************)
\* Freshness window applied when a caller passes freshness_seconds=None.
DefaultFreshness == 1

\* Values of the freshness_seconds argument a caller passes.
FreshnessOptions == {NoFreshness, 0}

EffectiveFreshness(freshness_seconds) ==
    IF freshness_seconds = NoFreshness THEN DefaultFreshness ELSE freshness_seconds

CacheKey(signal_name, scope_dict) == <<signal_name, scope_dict>>

IsFresh(c, key, freshness_seconds, t) ==
    /\ key \in DOMAIN c
    /\ t - c[key].stored_at <= EffectiveFreshness(freshness_seconds)

\* SignalCache.get: <<result>> while the stored result is fresh, else <<>>
\* (None).
CacheGet(c, signal_name, scope_dict, freshness_seconds, t) ==
    IF IsFresh(c, CacheKey(signal_name, scope_dict), freshness_seconds, t)
    THEN <<c[CacheKey(signal_name, scope_dict)].result>>
    ELSE <<>>

\* The store after a get: an entry found stale is dropped.
CacheAfterGet(c, signal_name, scope_dict, freshness_seconds, t) ==
    LET key == CacheKey(signal_name, scope_dict)
    IN  IF key \in DOMAIN c /\ ~IsFresh(c, key, freshness_seconds, t)
        THEN [k \in DOMAIN c \ {key} |-> c[k]]
        ELSE c

\* SignalCache.put: the first writer of a key wins.
CachePut(c, signal_name, scope_dict, result, t) ==
    LET key == CacheKey(signal_name, scope_dict)
    IN  IF key \in DOMAIN c THEN c
        ELSE [k \in DOMAIN c \cup {key} |->
                 IF k = key THEN [result |-> result, stored_at |-> t] ELSE c[k]]

(***************************************************************************)
(* signals/registry.py: SignalBus                                          *)
(***************************************************************************)
\* The subscription list put in the key as given, without sorted().
UnsortedSubs(subs) == subs

\* sorted(scope.subscription_ids)
SortedSubs(subs) == SortSeq(subs, LAMBDA a, b : a < b)

\* The scope_dict SignalBus.fetch builds as the scope part of the cache key.
ScopeDict(scope) ==
    [tenant_id |-> scope.tenant_id,
     mg_id |-> scope.management_group_id,
     subs |-> SortedSubs(scope.subscription_ids),
     rg |-> scope.resource_group]

\* SignalBus._emit: the event appended (under the lock) to bus.events.
RequestedEvent(signal_name) ==
    [type |-> "signal_requested", signal |-> signal_name]

ReturnedEvent(signal_name, cache_hit, ms) ==
    [type |-> "signal_returned", signal |-> signal_name, cache_hit |-> cache_hit, ms |-> ms]

\* The unknown-signal result with status NotAvailable in place of Error.
UnknownSignalNotAvailable(signal_name) ==
    SignalResult(signal_name, "NotAvailable", <<>>, EmptyRaw, <<MsgUnknownSignal>>, 0)

\* SignalResult(signal_name, ERROR, error_msg="Unknown signal: ...")
UnknownSignal(signal_name) ==
    SignalResult(signal_name, "Error", <<>>, EmptyRaw, <<MsgUnknownSignal>>, 0)

\* The "Cache it" step with results other than OK left out of the cache.
CacheResultIfOK(c, signal_name, scope_dict, result, t) ==
    IF result.status = "OK" THEN CachePut(c, signal_name, scope_dict, result, t)
    ELSE c

\* The "Cache it" step of fetch: the provider's result is put into the
\* cache whatever its status.
CacheResult(c, signal_name, scope_dict, result, t) ==
    CachePut(c, signal_name, scope_dict, result, t)

\* SignalBus.fetch as one sequential call: what it returns or raises, the
\* cache and event list it leaves, and whether it dispatched to a provider.
Fetch(c, ev, t, signal_name, scope, freshness_seconds, beh) ==
    LET scope_dict == ScopeDict(scope)
        cached == CacheGet(c, signal_name, scope_dict, freshness_seconds, t)
        c1 == CacheAfterGet(c, signal_name, scope_dict, freshness_seconds, t)
    IN  IF cached # <<>> THEN
            [ret |-> Returned(cached[1]), cache |-> c1,
             events |-> Append(ev, ReturnedEvent(signal_name, TRUE, 0)),
             outcome |-> "hit", dispatched |-> FALSE]
        ELSE IF signal_name \notin DOMAIN SIGNAL_PROVIDERS THEN
            [ret |-> Returned(UnknownSignal(signal_name)), cache |-> c1,
             events |-> ev, outcome |-> "unknown", dispatched |-> FALSE]
        ELSE
            LET p == Provider(signal_name, beh, scope)
                ev1 == Append(ev, RequestedEvent(signal_name))
            IN  IF p.kind = "raise" THEN
                    [ret |-> Raised, cache |-> c1, events |-> ev1,
                     outcome |-> "raised", dispatched |-> TRUE]
                ELSE
                    LET result == [p.res EXCEPT !.signal_name = signal_name]
                    IN  [ret |-> Returned(result),
                         cache |-> CacheResult(c1, signal_name, scope_dict, result, t),
                         events |-> Append(ev1, ReturnedEvent(signal_name, FALSE,
                                                              result.duration_ms)),
                         outcome |-> "miss", dispatched |-> TRUE]

\* The history record of one fetch call.
FetchRecord(f, signal_name, scope, freshness_seconds, beh, t, nevBefore) ==
    [signal |-> signal_name, scope |-> scope, beh |-> beh,
     freshness |-> freshness_seconds, t |-> t,
     outcome |-> f.outcome, dispatched |-> f.dispatched, ret |-> f.ret,
     emitted |-> SubSeq(f.events, nevBefore + 1, Len(f.events))]

(***************************************************************************)
(* evaluators/registry.py                                                  *)
(***************************************************************************)
\* EVALUATORS: control id -> required_signals of the registered evaluator.
EVALUATORS ==
    [c \in {"ctl-rg", "ctl-two", "ctl-mix", "ctl-unk", "ctl-none"} |->
        CASE c = "ctl-rg" -> <<"resource_graph:vnets">>
          [] c = "ctl-two" -> <<"policy:assignments", "resource_graph:vnets">>
          [] c = "ctl-mix" -> <<"resource_graph:vnets", UnknownName>>
          [] c = "ctl-unk" -> <<UnknownName>>
          [] OTHER -> <<>>]

ControlIds == DOMAIN EVALUATORS \cup {"ctl-unreg"}

\* What evaluator.evaluate(ctx, signals) does: returns a ControlResult with
\* this status, or raises.
EvalOutcomes == {"Pass", "Fail", "SignalError", "Raise"}

\* A confidence_score key that is absent from a result dict.
NoScore == -1

\* The dict evaluate_control returns (confidence_score in hundredths).
ControlDict(control_id, status, severity, confidence, score, used, cache_hit) ==
    [control_id |-> control_id, status |-> status, severity |-> severity,
     confidence |-> confidence, confidence_score |-> score,
     signals_used |-> used, telemetry |-> [cache_hit |-> cache_hit]]

\* The required-signal loop of evaluate_control: the fetches are issued in
\* order against the shared bus; a fetch that raises ends the loop.
RECURSIVE FetchAll(_, _, _, _, _, _, _, _)
RECURSIVE FetchAllStep(_, _, _, _, _, _, _, _)
FetchAll(c, ev, t, names, scope, freshness_seconds, behs, done) ==
    IF names = <<>> THEN
        [cache |-> c, events |-> ev, fetches |-> done, raised |-> FALSE]
    ELSE
        FetchAllStep(Fetch(c, ev, t, Head(names), scope, freshness_seconds,
                           Head(behs)),
                     Len(ev), t, names, scope, freshness_seconds, behs, done)

\* One turn of the loop, f being what bus.fetch did for the first name.
FetchAllStep(f, nevBefore, t, names, scope, freshness_seconds, behs, done) ==
    IF f.ret.kind = "raise" THEN
        [cache |-> f.cache, events |-> f.events,
         fetches |-> Append(done, FetchRecord(f, Head(names), scope,
                                freshness_seconds, Head(behs), t, nevBefore)),
         raised |-> TRUE]
    ELSE FetchAll(f.cache, f.events, t, Tail(names), scope,
                  freshness_seconds, Tail(behs),
                  Append(done, FetchRecord(f, Head(names), scope,
                                freshness_seconds, Head(behs), t, nevBefore)))

\* signal_bundle: the fetched results keyed by signal name.
SignalBundle(fetches) ==
    [n \in {fetches[i].signal : i \in DOMAIN fetches} |->
        LET last == CHOOSE i \in DOMAIN fetches :
                        /\ fetches[i].signal = n
                        /\ \A j \in DOMAIN fetches : fetches[j].signal = n => j <= i
        IN  fetches[last].ret.res]

\* all_errored computed with any() in place of all().
AllErroredAny(bundle) ==
    /\ DOMAIN bundle # {}
    /\ \E n \in DOMAIN bundle : bundle[n].status \in {"Error", "SignalError"}

\* all_errored
AllErrored(bundle) ==
    /\ DOMAIN bundle # {}
    /\ \A n \in DOMAIN bundle : bundle[n].status \in {"Error", "SignalError"}

\* cache_hit over the events this call appended.
CacheHitFlag(my_events) ==
    \A i \in DOMAIN my_events :
        my_events[i].type = "signal_returned" => my_events[i].cache_hit

\* evaluate_control after its fetch loop, fa being what the loop left: the
\* SignalError gate, the evaluator call and the result dict.
EvaluateFetched(fa, nevBefore, control_id, verdict) ==
    IF fa.raised THEN
        [ret |-> Raised, cache |-> fa.cache, events |-> fa.events,
         fetches |-> fa.fetches, all_errored |-> FALSE,
         eval_calls |-> 0, eval_raised |-> FALSE]
    ELSE IF AllErrored(SignalBundle(fa.fetches)) THEN
        [ret |-> Returned(ControlDict(control_id, "SignalError", "Medium", "Low",
                                      0, EVALUATORS[control_id], FALSE)),
         cache |-> fa.cache, events |-> fa.events,
         fetches |-> fa.fetches, all_errored |-> TRUE,
         eval_calls |-> 0, eval_raised |-> FALSE]
    ELSE IF verdict = "Raise" THEN
        [ret |-> Raised, cache |-> fa.cache, events |-> fa.events,
         fetches |-> fa.fetches, all_errored |-> FALSE,
         eval_calls |-> 1, eval_raised |-> TRUE]
    ELSE
        [ret |-> Returned(ControlDict(control_id, verdict, "Medium", "High", 100,
                    EVALUATORS[control_id],
                    CacheHitFlag(SubSeq(fa.events, nevBefore + 1,
                                        Len(fa.events))))),
         cache |-> fa.cache, events |-> fa.events,
         fetches |-> fa.fetches, all_errored |-> FALSE,
         eval_calls |-> 1, eval_raised |-> FALSE]

\* evaluate_control as one call: what it returns or raises, the bus it
\* leaves, the fetches it issued and how often it invoked the evaluator.
EvaluateControlCall(c, ev, t, control_id, scope, freshness_seconds, behs, verdict) ==
    IF control_id \notin DOMAIN EVALUATORS THEN
        [ret |-> Returned(ControlDict(control_id, "Unknown", "Medium", "Low",
                                      NoScore, <<>>, FALSE)),
         cache |-> c, events |-> ev, fetches |-> <<>>,
         all_errored |-> FALSE, eval_calls |-> 0, eval_raised |-> FALSE]
    ELSE
        EvaluateFetched(FetchAll(c, ev, t, EVALUATORS[control_id], scope,
                                 freshness_seconds, behs, <<>>),
                        Len(ev), control_id, verdict)

(***************************************************************************)
(* Scenarios.  Every scenario starts from a freshly constructed bus.       *)
(***************************************************************************)
Idle == "idle"

InitBus ==
    /\ cache = << >>
    /\ events = <<>>
    /\ now = 0
    /\ log = <<>>
    /\ ctl = <<>>
    /\ thr = Idle
    /\ writes = <<>>
    /\ rows = Idle
    /\ sc = Idle
    /\ scan = Idle
    /\ call = Idle

\* bus.fetch(signal_name, scope, freshness_seconds=...) issued by a caller.
FetchStep(signal_name, scope, freshness_seconds, beh) ==
    LET f == Fetch(cache, events, now, signal_name, scope, freshness_seconds, beh)
    IN  /\ cache' = f.cache
        /\ events' = f.events
        /\ log' = Append(log, FetchRecord(f, signal_name, scope, freshness_seconds,
                                          beh, now, Len(events)))
        /\ UNCHANGED <<now, ctl, thr, writes, rows, sc, scan, call>>

\* Time passes between two calls.
Tick ==
    /\ now < MaxTime
    /\ now' = now + 1
    /\ UNCHANGED <<cache, events, log, ctl, thr, writes, rows, sc, scan, call>>

(***************************************************************************)
(* SpecBus: a sequence of fetch calls on one bus while the clock advances. *)
(***************************************************************************)
BusNames == {"policy:assignments", UnknownName}
BusScopes == { EvalScope("t1", None, <<1, 2>>, None),
               EvalScope("t1", None, <<1>>, None) }

DoFetch ==
    /\ Len(log) < MaxOps
    /\ \E signal_name \in BusNames, scope \in BusScopes,
          freshness_seconds \in FreshnessOptions :
          \E beh \in Relevant(signal_name, scope) :
             FetchStep(signal_name, scope, freshness_seconds, beh)

NextBus == DoFetch \/ Tick

SpecBus == InitBus /\ [][NextBus]_vars

(***************************************************************************)
(* SpecFan: one fetch of a per-subscription fan-out signal, over every     *)
(* scope and every behaviour of the per-subscription calls.                *)
(***************************************************************************)
DoFetchFan ==
    /\ log = <<>>
    /\ \E signal_name \in FanOutNames, scope \in Scopes,
          freshness_seconds \in FreshnessOptions :
          \E beh \in Relevant(signal_name, scope) :
             FetchStep(signal_name, scope, freshness_seconds, beh)

NextFan == DoFetchFan

SpecFan == InitBus /\ [][NextFan]_vars

(***************************************************************************)
(* SpecKey: fetches of one signal under differing scopes on one bus.       *)
(***************************************************************************)
KeyNames == {"resource_graph:vnets", "resource_graph:public_ips"}

DoFetchKey ==
    /\ Len(log) < MaxOps
    /\ \E signal_name \in KeyNames, scope \in Scopes :
          \E beh \in Relevant(signal_name, scope) :
             FetchStep(signal_name, scope, NoFreshness, beh)

NextKey == DoFetchKey

SpecKey == InitBus /\ [][NextKey]_vars

(***************************************************************************)
(* SpecEval: evaluate_control calls sharing one bus.                       *)
(***************************************************************************)
EvalScopes == BusScopes

RequiredSignals(control_id) ==
    IF control_id \in DOMAIN EVALUATORS THEN EVALUATORS[control_id] ELSE <<>>

\* One behaviour for each fetch the call issues.
BehaviourLists(names, scope) ==
    {bs \in [DOMAIN names -> Behaviours] :
        \A i \in DOMAIN names : bs[i] \in Relevant(names[i], scope)}

\* evaluate_control(control_id, scope, bus, options=...)
DoEvaluate ==
    /\ Len(ctl) < MaxEvals
    /\ \E control_id \in ControlIds, scope \in EvalScopes,
          freshness_seconds \in {NoFreshness}, verdict \in EvalOutcomes :
        \E behs \in BehaviourLists(RequiredSignals(control_id), scope) :
          \E e \in {EvaluateControlCall(cache, events, now, control_id, scope,
                                        freshness_seconds, behs, verdict)} :
              /\ cache' = e.cache
              /\ events' = e.events
              /\ ctl' = Append(ctl,
                               [control_id |-> control_id, scope |-> scope,
                                ret |-> e.ret, fetches |-> e.fetches,
                                all_errored |-> e.all_errored,
                                eval_calls |-> e.eval_calls,
                                eval_raised |-> e.eval_raised,
                                verdict |-> verdict])
    /\ UNCHANGED <<now, log, thr, writes, rows, sc, scan, call>>

NextEval == DoEvaluate

SpecEval == InitBus /\ [][NextEval]_vars

(***************************************************************************)
(* Properties of SignalBus.fetch                                           *)
(***************************************************************************)
InWindow(i, j) ==
    log[j].t - log[i].t <= EffectiveFreshness(log[j].freshness)

\* C1: of two fetches with the same signal name and the same scope that fall
\* inside the freshness window, only the first dispatches to the provider;
\* the second is served from the cache.
C1_ProviderInvokedOnce ==
    \A i, j \in DOMAIN log :
        ( /\ i < j
          /\ log[i].signal = log[j].signal
          /\ log[i].scope = log[j].scope
          /\ log[i].dispatched
          /\ InWindow(i, j) )
        => (log[j].outcome = "hit" /\ ~log[j].dispatched)

\* The same statement over first fetches that returned a provider result,
\* every fetch in between falling inside its own window too.
C1_OnceAfterReturn ==
    \A i, j \in DOMAIN log :
        ( /\ i < j
          /\ log[i].signal = log[j].signal
          /\ log[i].scope = log[j].scope
          /\ log[i].outcome = "miss"
          /\ \A k \in (i + 1)..j : InWindow(i, k) )
        => (log[j].outcome = "hit" /\ ~log[j].dispatched)

SubsOf(scope) == {scope.subscription_ids[k] : k \in DOMAIN scope.subscription_ids}
ItemsOf(res) == {res.items[k] : k \in DOMAIN res.items}

\* C2: a fetch through a per-subscription fan-out provider is never aborted
\* by one subscription's exception: it returns a SignalResult, a raising
\* subscription shows as an Error result and every subscription whose call
\* succeeded has its data in the returned result.
C2_FanOutNeverAborts ==
    \A i \in DOMAIN log :
        log[i].signal \in FanOutNames =>
            /\ log[i].ret.kind = "return"
            /\ \A x \in SubsOf(log[i].scope) :
                  /\ log[i].beh.out[x] = "OK" => x \in ItemsOf(log[i].ret.res)
                  /\ log[i].beh.out[x] = "Raise" =>
                        \/ log[i].ret.res.status = "Error"
                        \/ \E k \in DOMAIN log[i].ret.res.raw._per_subscription :
                              log[i].ret.res.raw._per_subscription[k].status = "Error"

\* The fan-out over two or more subscriptions does contain the exception.
C2_MultiSubContained ==
    \A i \in DOMAIN log :
        (log[i].signal \in FanOutNames /\ Len(log[i].scope.subscription_ids) > 1)
            => log[i].ret.kind = "return"

IsPermutation(a, b) ==
    /\ Len(a) = Len(b)
    /\ \A x \in SubIds :
          Cardinality({k \in DOMAIN a : a[k] = x}) = Cardinality({k \in DOMAIN b : b[k] = x})

\* Two scopes that agree on tenant, management group, resource group and on
\* the subscription ids up to their order.
SameScope(a, b) ==
    /\ a.tenant_id = b.tenant_id
    /\ a.management_group_id = b.management_group_id
    /\ a.resource_group = b.resource_group
    /\ IsPermutation(a.subscription_ids, b.subscription_ids)

\* C9: a fetch is served from the cache only with a result that was cached
\* for the same signal under a scope equal in tenant, management group,
\* resource group and subscription set, and a fetch whose scope lists the
\* same subscriptions in another order is served from that entry.
C9_CacheKeyScope ==
    \A j \in DOMAIN log :
        /\ log[j].outcome = "hit" =>
              \E i \in 1..(j - 1) :
                  /\ log[i].outcome = "miss"
                  /\ log[i].signal = log[j].signal
                  /\ SameScope(log[i].scope, log[j].scope)
                  /\ log[j].ret = log[i].ret
        /\ \A i \in 1..(j - 1) :
              ( /\ log[i].outcome = "miss"
                /\ log[i].signal = log[j].signal
                /\ SameScope(log[i].scope, log[j].scope)
                /\ InWindow(i, j) )
              => (log[j].outcome = "hit" /\ log[j].ret = log[i].ret)

\* A result cached under one order of the subscription ids is returned for
\* a request that lists them in the other order.
C9_Witness ==
    \E i, j \in DOMAIN log :
        /\ i < j
        /\ log[i].outcome = "miss"
        /\ log[j].outcome = "hit"
        /\ log[i].scope.subscription_ids # log[j].scope.subscription_ids
        /\ Len(log[i].scope.subscription_ids) > 1

HasEvent(em, type, signal_name) ==
    \E k \in DOMAIN em : em[k].type = type /\ em[k].signal = signal_name

\* C10: every fetch call appends a signal_requested and a signal_returned
\* event for its signal, the latter carrying the cache_hit flag and the
\* duration.
C10_AlwaysBothEvents ==
    \A i \in DOMAIN log :
        /\ HasEvent(log[i].emitted, "signal_requested", log[i].signal)
        /\ \E k \in DOMAIN log[i].emitted :
              /\ log[i].emitted[k].type = "signal_returned"
              /\ log[i].emitted[k].signal = log[i].signal
              /\ log[i].emitted[k].cache_hit = (log[i].outcome = "hit")
              /\ log[i].emitted[k].ms >= 0

\* What the bus does emit: a dispatch that returns emits both events, a
\* cache hit only signal_returned, an unknown name nothing.
C10_EmittedPerOutcome ==
    \A i \in DOMAIN log :
        /\ log[i].outcome = "miss" =>
              log[i].emitted = <<RequestedEvent(log[i].signal),
                                 ReturnedEvent(log[i].signal, FALSE,
                                               log[i].ret.res.duration_ms)>>
        /\ log[i].outcome = "hit" =>
              log[i].emitted = <<ReturnedEvent(log[i].signal, TRUE, 0)>>
        /\ log[i].outcome = "unknown" => log[i].emitted = <<>>
        /\ log[i].outcome = "raised" =>
              log[i].emitted = <<RequestedEvent(log[i].signal)>>

(***************************************************************************)
(* Properties of evaluate_control                                          *)
(***************************************************************************)
\* C3: evaluate_control never lets an exception escape, and an exception of
\* the evaluator yields a result with status "Error".
C3_NoExceptionEscapes ==
    \A i \in DOMAIN ctl :
        /\ ctl[i].ret.kind = "return"
        /\ ctl[i].eval_raised => ctl[i].ret.res.status = "Error"

AllFetched(r) ==
    /\ Len(r.fetches) = Len(RequiredSignals(r.control_id))
    /\ \A k \in DOMAIN r.fetches : r.fetches[k].ret.kind = "return"

EveryRequiredErrored(r) ==
    \A k \in DOMAIN r.fetches :
        r.fetches[k].ret.res.status \in {"Error", "SignalError"}

IsGateResult(r) ==
    /\ r.ret.kind = "return"
    /\ r.ret.res.status = "SignalError"
    /\ r.ret.res.confidence_score = 0
    /\ r.eval_calls = 0

C11_UnknownSignalIsError ==
    \A i \in DOMAIN ctl :
        /\ \A k \in DOMAIN ctl[i].fetches :
              ctl[i].fetches[k].signal \notin DOMAIN SIGNAL_PROVIDERS =>
                  /\ ctl[i].fetches[k].ret.kind = "return"
                  /\ ctl[i].fetches[k].ret.res.status = "Error"
                  /\ ctl[i].fetches[k].ret.res.signal_name = ctl[i].fetches[k].signal
                  /\ ~ctl[i].fetches[k].dispatched
        /\ ( /\ ctl[i].control_id \in DOMAIN EVALUATORS
             /\ RequiredSignals(ctl[i].control_id) # <<>>
             /\ \A k \in DOMAIN RequiredSignals(ctl[i].control_id) :
                   RequiredSignals(ctl[i].control_id)[k] \notin DOMAIN SIGNAL_PROVIDERS )
            => /\ ctl[i].ret.kind = "return"
               /\ ctl[i].ret.res.status = "SignalError"
               /\ Len(ctl[i].fetches) = Len(RequiredSignals(ctl[i].control_id))

\* The control bound to an unknown signal was evaluated: its fetch came back
\* as an Error result and the control ended in SignalError.
C11_Witness ==
    \E i \in DOMAIN ctl :
        /\ ctl[i].control_id = "ctl-unk"
        /\ Len(ctl[i].fetches) = 1
        /\ ctl[i].fetches[1].signal = UnknownName
        /\ ctl[i].fetches[1].ret.kind = "return"
        /\ ctl[i].fetches[1].ret.res.status = "Error"
        /\ ctl[i].ret.kind = "return"
        /\ ctl[i].ret.res.status = "SignalError"

(***************************************************************************)
(* SpecConc: two threads call bus.fetch for the same (signal name, scope)  *)
(* on one bus.  Each step is one lock-protected operation of fetch or the  *)
(* provider dispatch between them.                                         *)
(***************************************************************************)
Threads == {1, 2}
ConcName == "policy:assignments"

InitConc ==
    /\ cache = << >>
    /\ events = <<>>
    /\ now = 0
    /\ log = <<>>
    /\ ctl = <<>>
    /\ \E scope \in BusScopes :
          thr = [scope |-> scope,
                 th |-> [t \in Threads |->
                            [pc |-> "start", missed |-> FALSE, ret |-> Raised]]]
    /\ writes = <<>>
    /\ rows = Idle
    /\ sc = Idle
    /\ scan = Idle
    /\ call = Idle

ConcFrame == UNCHANGED <<now, log, ctl, rows, sc, scan, call>>

\* cached = self.cache.get(signal_name, scope_dict, ...)
TGet(t) ==
    /\ thr.th[t].pc = "start"
    /\ LET scope_dict == ScopeDict(thr.scope)
           cached == CacheGet(cache, ConcName, scope_dict, NoFreshness, now)
       IN  /\ cache' = CacheAfterGet(cache, ConcName, scope_dict, NoFreshness, now)
           /\ thr' = [thr EXCEPT !.th[t] =
                        IF cached # <<>>
                        THEN [pc |-> "emit_hit", missed |-> FALSE,
                              ret |-> Returned(cached[1])]
                        ELSE [pc |-> "emit_requested", missed |-> TRUE,
                              ret |-> Raised]]
    /\ UNCHANGED <<events, writes>>
    /\ ConcFrame

\* self._emit("signal_returned", signal_name, cache_hit=True, ms=0); return
TEmitHit(t) ==
    /\ thr.th[t].pc = "emit_hit"
    /\ events' = Append(events, ReturnedEvent(ConcName, TRUE, 0))
    /\ thr' = [thr EXCEPT !.th[t].pc = "done"]
    /\ UNCHANGED <<cache, writes>>
    /\ ConcFrame

\* self._emit("signal_requested", signal_name)
TEmitRequested(t) ==
    /\ thr.th[t].pc = "emit_requested"
    /\ events' = Append(events, RequestedEvent(ConcName))
    /\ thr' = [thr EXCEPT !.th[t].pc = "dispatch"]
    /\ UNCHANGED <<cache, writes>>
    /\ ConcFrame

\* result = provider(scope); result.signal_name = signal_name
TDispatch(t) ==
    /\ thr.th[t].pc = "dispatch"
    /\ \E beh \in Relevant(ConcName, thr.scope) :
          LET p == Provider(ConcName, beh, thr.scope)
          IN  thr' = [thr EXCEPT !.th[t] =
                        IF p.kind = "raise"
                        THEN [pc |-> "done", missed |-> TRUE, ret |-> Raised]
                        ELSE [pc |-> "put", missed |-> TRUE,
                              ret |-> Returned([p.res EXCEPT !.signal_name = ConcName])]]
    /\ UNCHANGED <<cache, events, writes>>
    /\ ConcFrame

\* self.cache.put(signal_name, scope_dict, result)
TPut(t) ==
    /\ thr.th[t].pc = "put"
    /\ cache' = CachePut(cache, ConcName, ScopeDict(thr.scope), thr.th[t].ret.res, now)
    /\ writes' = Append(writes, t)
    /\ thr' = [thr EXCEPT !.th[t].pc = "emit_returned"]
    /\ UNCHANGED events
    /\ ConcFrame

\* self._emit("signal_returned", signal_name, cache_hit=False, ms=...); return
TEmitReturned(t) ==
    /\ thr.th[t].pc = "emit_returned"
    /\ events' = Append(events, ReturnedEvent(ConcName, FALSE,
                                              thr.th[t].ret.res.duration_ms))
    /\ thr' = [thr EXCEPT !.th[t].pc = "done"]
    /\ UNCHANGED <<cache, writes>>
    /\ ConcFrame

NextConc ==
    \E t \in Threads :
        \/ TGet(t)
        \/ TEmitHit(t)
        \/ TEmitRequested(t)
        \/ TDispatch(t)
        \/ TPut(t)
        \/ TEmitReturned(t)

SpecConc == InitConc /\ [][NextConc]_vars

WellFormed(res) ==
    /\ res.signal_name = ConcName
    /\ res.status \in SignalStatus

CountEvents(type) == Cardinality({k \in DOMAIN events : events[k].type = type})

BothMissedDone ==
    \A t \in Threads : thr.th[t].pc = "done" /\ thr.th[t].missed

ConcKey == CacheKey(ConcName, ScopeDict(thr.scope))

\* C8: when two concurrent fetches of one key both miss, both return a
\* well-formed SignalResult, the cache ends with exactly one well-formed
\* entry for the key, namely the result written first, and the event list
\* holds the signal_requested and signal_returned events of both calls.
C8_ConcurrentMisses ==
    BothMissedDone =>
        /\ \A t \in Threads :
              thr.th[t].ret.kind = "return" /\ WellFormed(thr.th[t].ret.res)
        /\ DOMAIN cache = {ConcKey}
        /\ WellFormed(cache[ConcKey].result)
        /\ cache[ConcKey].result = thr.th[writes[1]].ret.res
        /\ CountEvents("signal_requested") = 2
        /\ CountEvents("signal_returned") = 2

\* The cache and event-list part of C8 for calls whose provider returned.
C8_StateAfterReturns ==
    (BothMissedDone /\ \A t \in Threads : thr.th[t].ret.kind = "return") =>
        /\ DOMAIN cache = {ConcKey}
        /\ WellFormed(cache[ConcKey].result)
        /\ cache[ConcKey].result = thr.th[writes[1]].ret.res
        /\ CountEvents("signal_requested") = 2
        /\ CountEvents("signal_returned") = 2

(***************************************************************************)
(* engine/adapter.py: run_evaluators_for_scoring                           *)
(***************************************************************************)
\* A control GUID as <<first eight characters, remainder>>.
AdapterIds == { <<"aaaaaaaa", "-1">>, <<"aaaaaaaa", "-2">>, <<"bbbbbbbb", "-1">> }
NoGuid == <<"", "">>
Prefixes == {id[1] : id \in AdapterIds}

\* control_id[:8]
ShortId(control_id) == control_id[1]

\* pack_controls: for a short id, no entry, an entry without "full_id", or
\* an entry whose "full_id" is a GUID with that prefix.
NoMeta == <<"no-meta", "">>
NoFullId == <<"no-full-id", "">>
PackControls ==
    [Prefixes -> {NoMeta, NoFullId} \cup AdapterIds] \cap
    {pk \in [Prefixes -> {NoMeta, NoFullId} \cup AdapterIds] :
        \A q \in Prefixes : pk[q] \in AdapterIds => ShortId(pk[q]) = q}

\* meta.get("full_id", control_id)
FullId(pack_controls, control_id) ==
    IF ShortId(control_id) \in DOMAIN pack_controls
       /\ pack_controls[ShortId(control_id)] \in AdapterIds
    THEN pack_controls[ShortId(control_id)]
    ELSE control_id

\* adapt_evaluator_result: the scoring row of one evaluate_control response.
AdaptEvaluatorResult(eval_result, pack_controls) ==
    [control_id |-> FullId(pack_controls, eval_result.control_id),
     status |-> eval_result.status,
     origin |-> "automated"]

\* The row backfilled for a checklist item.
ManualRow(guid) == [control_id |-> guid, status |-> "Manual", origin |-> "manual"]

\* The backfill loop: items whose guid is not among the automated ids.
RECURSIVE ManualResults(_, _)
ManualResults(items, automated_ids) ==
    IF items = <<>> THEN <<>>
    ELSE IF Head(items) \in automated_ids
         THEN ManualResults(Tail(items), automated_ids)
         ELSE <<ManualRow(Head(items))>> \o ManualResults(Tail(items), automated_ids)

\* run_evaluators_for_scoring: registry is EVALUATORS in iteration order,
\* outcome[i] what evaluate_control does for the i-th control (the status it
\* returns, or "Raise").
RunEvaluatorsForScoring(registry, pack_controls, checklist, outcome) ==
    IF \E i \in DOMAIN registry : outcome[i] = "Raise" THEN Raised
    ELSE
        LET automated_results ==
                [i \in DOMAIN registry |->
                    AdaptEvaluatorResult([control_id |-> registry[i],
                                          status |-> outcome[i]], pack_controls)]
            automated_ids ==
                {automated_results[i].control_id : i \in DOMAIN automated_results}
        IN  Returned(automated_results \o ManualResults(checklist, automated_ids))

\* Duplicate-free sequences over a set, up to a length.
SeqsNoDup(S, n) ==
    UNION { {q \in [1..k -> S] : \A i, j \in 1..k : i # j => q[i] # q[j]} : k \in 0..n }

SeqsUpTo(S, n) == UNION { [1..k -> S] : k \in 0..n }

\* Statuses evaluate_control returns (or "Raise").
AdapterOutcomes == {"Pass", "SignalError", "Unknown", "Raise"}

InitAdapter ==
    /\ cache = << >>
    /\ events = <<>>
    /\ now = 0
    /\ log = <<>>
    /\ ctl = <<>>
    /\ thr = Idle
    /\ writes = <<>>
    /\ \E registry \in SeqsNoDup(AdapterIds, MaxEvaluators),
          pack_controls \in PackControls,
          checklist \in SeqsUpTo(AdapterIds \cup {NoGuid}, MaxChecklist) :
          rows = [registry |-> registry, pack_controls |-> pack_controls,
                  checklist |-> checklist, ret |-> [kind |-> "pending"]]
    /\ sc = Idle
    /\ scan = Idle
    /\ call = Idle

\* results = run_evaluators_for_scoring(scope, bus, checklist=checklist)
DoRunEvaluators ==
    /\ rows.ret.kind = "pending"
    /\ \E outcome \in [DOMAIN rows.registry -> AdapterOutcomes] :
          rows' = [rows EXCEPT !.ret =
                      RunEvaluatorsForScoring(rows.registry, rows.pack_controls,
                                              rows.checklist, outcome)]
    /\ UNCHANGED <<cache, events, now, log, ctl, thr, writes, sc, scan, call>>

NextAdapter == DoRunEvaluators

SpecAdapter == InitAdapter /\ [][NextAdapter]_vars

\* C5: the list run_evaluators_for_scoring returns has no control_id in two
\* rows, whatever the registered evaluators and the checklist.
C5_OneRowPerControl ==
    rows.ret.kind = "return" =>
        \A i, j \in DOMAIN rows.ret.res :
            i # j => rows.ret.res[i].control_id # rows.ret.res[j].control_id

HasDuplicates(q) == \E i, j \in DOMAIN q : i # j /\ q[i] = q[j]

\* With a checklist of distinct guids and evaluators that map to distinct
\* pack ids there is one row per control id.
C5_DistinctInputs ==
    ( /\ rows.ret.kind = "return"
      /\ ~HasDuplicates(rows.checklist)
      /\ ~HasDuplicates([i \in DOMAIN rows.registry |->
                            FullId(rows.pack_controls, rows.registry[i])]) )
    => \A i, j \in DOMAIN rows.ret.res :
            i # j => rows.ret.res[i].control_id # rows.ret.res[j].control_id

(***************************************************************************)
(* engine/scoring.py.  Confidence scores are in hundredths, percentages in *)
(* tenths of a percent.                                                    *)
(***************************************************************************)
ControlStatuses ==
    {"Pass", "Fail", "Partial", "Info", "Manual", "NotApplicable",
     "Unknown", "Deferred", "Error", "SignalError"}

CONFIDENCE_FLOOR == 30

PASS_STATUSES == {"Pass"}

\* AUTO_STATUSES with SignalError counted as automated.
AUTO_STATUSES_WithSignalError ==
    {"Pass", "Fail", "Partial", "Info", "NotApplicable", "SignalError"}

AUTO_STATUSES == {"Pass", "Fail", "Partial", "Info", "NotApplicable"}
MANUAL_STATUSES == {"Manual"}
NA_STATUSES == {"NotApplicable"}
SIGNAL_ERROR_STATUSES == {"SignalError"}

\* signals/types.py CONFIDENCE_LABEL, with the 0.7 default of .get().
CONFIDENCE_LABEL(label) ==
    CASE label = "High" -> 100
      [] label = "Medium" -> 70
      [] label = "Low" -> 30
      [] OTHER -> 70

Max(a, b) == IF a >= b THEN a ELSE b

\* automation_integrity 1.0 in ten-thousandths.
IntegrityScale == 10000

CountStatus(results, statuses) ==
    Cardinality({i \in DOMAIN results : results[i].status \in statuses})

\* automation_integrity in ten-thousandths (round(..., 4)) with the
\* SignalError rows left out of the attempted controls.
AutomationIntegrityOfAutomated(automated, signal_errors) ==
    LET attempted == automated
    IN  IF attempted # 0
        THEN RoundRatio(attempted - signal_errors, attempted, IntegrityScale)
        ELSE IntegrityScale

\* automation_integrity in ten-thousandths (round(..., 4)):
\* 1.0 - signal_errors / attempted, 1.0 when nothing was attempted.
AutomationIntegrity(automated, signal_errors) ==
    LET attempted == automated + signal_errors
    IN  IF attempted # 0
        THEN RoundRatio(attempted - signal_errors, attempted, IntegrityScale)
        ELSE IntegrityScale

\* automation_coverage
AutomationCoverage(results, total_controls) ==
    [total_controls |-> total_controls,
     automated_controls |-> CountStatus(results, AUTO_STATUSES),
     manual_controls |-> CountStatus(results, MANUAL_STATUSES),
     not_applicable_controls |-> CountStatus(results, NA_STATUSES),
     signal_error_controls |-> CountStatus(results, SIGNAL_ERROR_STATUSES),
     automation_integrity |->
        AutomationIntegrity(CountStatus(results, AUTO_STATUSES),
                            CountStatus(results, SIGNAL_ERROR_STATUSES))]

\* _effective_confidence without the max(..., CONFIDENCE_FLOOR).
EffectiveConfidenceUnfloored(r) ==
    IF r.confidence_score # NoScore
    THEN r.confidence_score
    ELSE CONFIDENCE_LABEL(r.confidence)

\* _effective_confidence
EffectiveConfidence(r) ==
    IF r.confidence_score # NoScore
    THEN Max(r.confidence_score, CONFIDENCE_FLOOR)
    ELSE Max(CONFIDENCE_LABEL(r.confidence), CONFIDENCE_FLOOR)

\* maturity_percent of a section without automated controls (None).
NoMaturity == -1

RECURSIVE SumConfidence(_)
SumConfidence(items) ==
    IF items = <<>> THEN 0
    ELSE EffectiveConfidence(Head(items)) + SumConfidence(Tail(items))

IsAutomatedItem(r) == r.status \in AUTO_STATUSES /\ r.status \notin NA_STATUSES
IsPass(r) == r.status = "Pass"
IsFail(r) == r.status = "Fail"

\* The block section_scores builds for one section.
SectionBlock(section, items) ==
    LET automated_items == SelectSeq(items, IsAutomatedItem)
        auto_total == Len(automated_items)
        total_weight == SumConfidence(automated_items)
        pass_weight == SumConfidence(SelectSeq(automated_items, IsPass))
    IN  [section |-> section,
         automated_controls |-> auto_total,
         automated_pass |-> Len(SelectSeq(automated_items, IsPass)),
         automated_fail |-> Len(SelectSeq(automated_items, IsFail)),
         total_controls |-> Len(items),
         maturity_percent |->
            IF auto_total > 0
            THEN (IF total_weight # 0 THEN RoundRatio(pass_weight, total_weight, 1000)
                  ELSE 0)
            ELSE NoMaturity]

\* Keys of by_section in insertion order.
RECURSIVE SectionOrder(_, _)
SectionOrder(results, seen) ==
    IF results = <<>> THEN <<>>
    ELSE IF Head(results).section \in seen
         THEN SectionOrder(Tail(results), seen)
         ELSE <<Head(results).section>> \o
              SectionOrder(Tail(results), seen \cup {Head(results).section})

\* Sort key of out.sort: sections without maturity last, else by maturity.
MaturityKey(block) ==
    IF block.maturity_percent = NoMaturity THEN <<1, 9999>>
    ELSE <<0, block.maturity_percent>>

KeyLess(a, b) == a[1] < b[1] \/ (a[1] = b[1] /\ a[2] < b[2])

\* Stable insertion of a block into a list sorted by MaturityKey.
RECURSIVE InsertBlock(_, _)
InsertBlock(sorted, block) ==
    IF sorted = <<>> THEN <<block>>
    ELSE IF KeyLess(MaturityKey(block), MaturityKey(Head(sorted)))
         THEN <<block>> \o sorted
         ELSE <<Head(sorted)>> \o InsertBlock(Tail(sorted), block)

RECURSIVE SortBlocks(_, _)
SortBlocks(blocks, acc) ==
    IF blocks = <<>> THEN acc
    ELSE SortBlocks(Tail(blocks), InsertBlock(acc, Head(blocks)))

\* section_scores
SectionScores(results) ==
    LET order == SectionOrder(results, {})
        blocks == [k \in DOMAIN order |->
                      SectionBlock(order[k],
                          SelectSeq(results, LAMBDA r : r.section = order[k]))]
    IN  SortBlocks(blocks, <<>>)

RECURSIVE SumAutomated(_)
SumAutomated(sections) ==
    IF sections = <<>> THEN 0
    ELSE Head(sections).automated_controls + SumAutomated(Tail(sections))

RECURSIVE SumPass(_)
SumPass(sections) ==
    IF sections = <<>> THEN 0
    ELSE Head(sections).automated_pass + SumPass(Tail(sections))

\* overall_maturity
OverallMaturity(sections) ==
    LET total_auto == SumAutomated(sections)
        total_pass == SumPass(sections)
    IN  IF total_auto = 0 THEN 0 ELSE RoundRatio(total_pass, total_auto, 1000)

\* compute_scoring for a list of result rows.
ComputeScoring(results) ==
    LET sections == SectionScores(results)
    IN  [automation_coverage |-> AutomationCoverage(results, Len(results)),
         overall_maturity_percent |-> OverallMaturity(sections),
         section_scores |-> sections]

(***************************************************************************)
(* SpecScoring: compute_scoring over a result list R and over R extended   *)
(* with SignalError rows S.                                                *)
(***************************************************************************)
ScoreSections == {"Networking", "Security"}
ScoreValues == {NoScore, 10, 90}

\* Rows of every status; the rows that carry a weight in the maturity take
\* every confidence, the others none (the label is used).
ResultRows ==
    [status : {"Pass", "Fail", "Partial", "Info"}, section : ScoreSections,
     confidence_score : ScoreValues, confidence : {"Low"}]
    \cup
    [status : ControlStatuses \ {"Pass", "Fail", "Partial", "Info"},
     section : ScoreSections, confidence_score : {NoScore}, confidence : {"Low"}]

\* SignalError rows, in a section of R or in a section of their own.
SignalErrorRows ==
    [status : {"SignalError"}, section : {"Networking", "Identity"},
     confidence_score : {0}, confidence : {"Low"}]

InitScoring ==
    /\ cache = << >>
    /\ events = <<>>
    /\ now = 0
    /\ log = <<>>
    /\ ctl = <<>>
    /\ thr = Idle
    /\ writes = <<>>
    /\ rows = Idle
    /\ scan = Idle
    /\ call = Idle
    /\ \E R \in SeqsUpTo(ResultRows, MaxRows), S \in SeqsUpTo(SignalErrorRows, MaxExtra) :
          sc = [R |-> R, S |-> S, done |-> FALSE,
                base |-> ComputeScoring(<<>>), with |-> ComputeScoring(<<>>)]

\* compute_scoring(R) and compute_scoring(R + S)
DoComputeScoring ==
    /\ ~sc.done
    /\ sc' = [sc EXCEPT !.done = TRUE,
                        !.base = ComputeScoring(sc.R),
                        !.with = ComputeScoring(sc.R \o sc.S)]
    /\ UNCHANGED <<cache, events, now, log, ctl, thr, writes, rows, scan, call>>

NextScoring == DoComputeScoring

SpecScoring == InitScoring /\ [][NextScoring]_vars

\* C6: the automation_coverage counts add up to total_controls:
\* automated + manual + not_applicable + signal_error = total.
C6_CoveragePartition ==
    sc.done =>
        LET cov == sc.base.automation_coverage
        IN  cov.automated_controls + cov.manual_controls
              + cov.not_applicable_controls + cov.signal_error_controls
            = cov.total_controls

\* What the counts do add up to: NotApplicable rows are counted twice and
\* Unknown, Deferred and Error rows not at all.
C6_CountsAsCoded ==
    sc.done =>
        LET cov == sc.base.automation_coverage
        IN  cov.automated_controls + cov.manual_controls + cov.signal_error_controls
              + CountStatus(sc.R, {"Unknown", "Deferred", "Error"})
            = cov.total_controls

SectionMaturity(scoring, section) ==
    LET hits == SelectSeq(scoring.section_scores, LAMBDA b : b.section = section)
    IN  IF hits = <<>> THEN NoMaturity ELSE hits[1].maturity_percent

\* C7: appending SignalError rows changes neither overall_maturity_percent
\* nor the maturity_percent of any section that had one.
C7_SignalErrorNeutral ==
    sc.done =>
        /\ sc.with.overall_maturity_percent = sc.base.overall_maturity_percent
        /\ \A k \in DOMAIN sc.base.section_scores :
              sc.base.section_scores[k].maturity_percent # NoMaturity =>
                  SectionMaturity(sc.with, sc.base.section_scores[k].section)
                    = sc.base.section_scores[k].maturity_percent

\* A section with a Pass and a Fail row gets a SignalError row appended and
\* keeps its maturity.
C7_Witness ==
    /\ sc.done
    /\ \E i, j \in DOMAIN sc.R :
          /\ sc.R[i].status = "Pass" /\ sc.R[j].status = "Fail"
          /\ sc.R[i].section = "Networking" /\ sc.R[j].section = "Networking"
    /\ \E k \in DOMAIN sc.S : sc.S[k].section = "Networking"
    /\ sc.base.overall_maturity_percent = 500
    /\ sc.with.overall_maturity_percent = 500

(***************************************************************************)
(* signals/validation.py and the full-scan path of scan.py main            *)
(***************************************************************************)
MaxPackControls == 2   \* controls of the pack handed to one scan

\* build_signal_registry: pack signal key -> signal_bus_name (None for a
\* signal without one); "sig_absent" is a key the pack does not define.
ScanSignalRegistry ==
    [sig_vnets |-> "resource_graph:vnets", sig_null |-> None,
     sig_unknown |-> UnknownName]

\* signal_registry.get(sig_key)
BusNameOf(signal_registry, sig_key) ==
    IF sig_key \in DOMAIN signal_registry THEN signal_registry[sig_key] ELSE None

Violation(cid, type) == [control_id |-> cid, type |-> type]

\* Check 2 of validate_signal_bindings over the required signals of a control.
RECURSIVE SignalViolations(_, _, _)
SignalViolations(cid, required_sigs, signal_registry) ==
    IF required_sigs = <<>> THEN <<>>
    ELSE
        ( IF BusNameOf(signal_registry, Head(required_sigs)) = None
            THEN <<Violation(cid, "missing_signal_bus_name")>>
          ELSE IF BusNameOf(signal_registry, Head(required_sigs))
                      \notin DOMAIN SIGNAL_PROVIDERS
            THEN <<Violation(cid, "missing_provider")>>
          ELSE <<>> )
        \o SignalViolations(cid, Tail(required_sigs), signal_registry)

\* The violations of one control: none for a control without required
\* signals, else check 1 (evaluator registered under the short or full id)
\* followed by check 2.
ControlViolations(ctrl, signal_registry, evaluator_ids) ==
    IF ctrl.required_signals = <<>> THEN <<>>
    ELSE
        ( IF ctrl.cid \in evaluator_ids \/ ctrl.full_id \in evaluator_ids
            THEN <<>>
            ELSE <<Violation(ctrl.cid, "missing_evaluator")>> )
        \o SignalViolations(ctrl.cid, ctrl.required_signals, signal_registry)

\* validate_signal_bindings(pack, evaluator_ids)
RECURSIVE ValidateSignalBindings(_, _, _)
ValidateSignalBindings(controls, signal_registry, evaluator_ids) ==
    IF controls = <<>> THEN <<>>
    ELSE ControlViolations(Head(controls), signal_registry, evaluator_ids)
         \o ValidateSignalBindings(Tail(controls), signal_registry, evaluator_ids)

\* Every violation counted as critical.
CriticalViolationsAll(violations) == violations

\* critical = [v for v in binding_violations if v["type"] != "missing_evaluator"]
CriticalViolations(violations) ==
    SelectSeq(violations, LAMBDA v : v.type # "missing_evaluator")

\* pending = [v for v in binding_violations if v["type"] == "missing_evaluator"]
PendingViolations(violations) ==
    SelectSeq(violations, LAMBDA v : v.type = "missing_evaluator")

(***************************************************************************)
(* SpecScan: one full scan, from the binding validation to the scoring.    *)
(***************************************************************************)
PackCids == <<"c1", "c2", "c3">>
PackFullIds == <<"c1-full", "c2-full", "c3-full">>

\* required_signals lists a pack control may declare.
RequiredSigOptions ==
    { <<>>, <<"sig_vnets">>, <<"sig_null">>, <<"sig_unknown">>, <<"sig_absent">>,
      <<"sig_vnets", "sig_unknown">> }

\* pack.controls, in iteration order
ScanPacks ==
    UNION { { [i \in 1..n |-> [cid |-> PackCids[i], full_id |-> PackFullIds[i],
                              required_signals |-> rs[i]]] :
                rs \in [1..n -> RequiredSigOptions] } : n \in 0..MaxPackControls }

\* set(EVALUATORS.keys()): evaluators registered under a short or a full id
ScanEvaluatorIds == SUBSET {"c1", "c2-full"}

InitScan ==
    /\ cache = << >>
    /\ events = <<>>
    /\ now = 0
    /\ log = <<>>
    /\ ctl = <<>>
    /\ thr = Idle
    /\ writes = <<>>
    /\ rows = Idle
    /\ sc = Idle
    /\ call = Idle
    /\ \E controls \in ScanPacks, evaluator_ids \in ScanEvaluatorIds :
          scan = [pc |-> "validate", controls |-> controls,
                  evaluator_ids |-> evaluator_ids, binding_violations |-> <<>>,
                  pending_reported |-> 0, raised |-> None, trace |-> <<>>]

ScanFrame == UNCHANGED <<cache, events, now, log, ctl, thr, writes, rows, sc, call>>

\* binding_violations = validate_signal_bindings(pack); raise
\* SignalBindingError on a critical violation, report the pending ones.
ScanValidate ==
    /\ scan.pc = "validate"
    /\ \E violations \in {ValidateSignalBindings(scan.controls, ScanSignalRegistry,
                                                 scan.evaluator_ids)} :
          scan' = [scan EXCEPT
              !.binding_violations = violations,
              !.trace = Append(@, "validate_signal_bindings"),
              !.pc = IF CriticalViolations(violations) # <<>>
                       THEN "aborted" ELSE "signals",
              !.raised = IF CriticalViolations(violations) # <<>>
                           THEN "SignalBindingError" ELSE None,
              !.pending_reported = IF CriticalViolations(violations) # <<>>
                                     THEN 0 ELSE Len(PendingViolations(violations))]
    /\ ScanFrame

\* bus = SignalBus(); sig_matrix = probe_signal_availability(bus, scope)
ScanProbeSignals ==
    /\ scan.pc = "signals"
    /\ scan' = [scan EXCEPT !.trace = Append(@, "probe_signal_availability"),
                            !.pc = "evaluators"]
    /\ ScanFrame

\* results = run_evaluators_for_scoring(scope, bus, ...): returns, or lets an
\* exception of evaluate_control through.
ScanRunEvaluators ==
    /\ scan.pc = "evaluators"
    /\ \E outcome \in {"return", "raise"} :
          scan' = [scan EXCEPT !.trace = Append(@, "run_evaluators_for_scoring"),
                               !.pc = IF outcome = "raise" THEN "crashed" ELSE "scoring",
                               !.raised = IF outcome = "raise" THEN "Exception" ELSE None]
    /\ ScanFrame

\* scoring = compute_scoring(results)
ScanComputeScoring ==
    /\ scan.pc = "scoring"
    /\ scan' = [scan EXCEPT !.trace = Append(@, "compute_scoring"), !.pc = "scored"]
    /\ ScanFrame

NextScan == ScanValidate \/ ScanProbeSignals \/ ScanRunEvaluators \/ ScanComputeScoring

SpecScan == InitScan /\ [][NextScan]_vars

InTrace(step) == \E i \in DOMAIN scan.trace : scan.trace[i] = step

\* Some data-driven control requires a signal that has no bus name or whose
\* bus name has no provider.
HasUnresolvedSignal ==
    \E i \in DOMAIN scan.controls :
        \E k \in DOMAIN scan.controls[i].required_signals :
            LET key == scan.controls[i].required_signals[k]
            IN  \/ key \notin DOMAIN ScanSignalRegistry
                \/ ScanSignalRegistry[key] = None
                \/ ScanSignalRegistry[key] \notin DOMAIN SIGNAL_PROVIDERS

\* The data-driven controls without an evaluator under either id.
ControlsWithoutEvaluator ==
    {i \in DOMAIN scan.controls :
        /\ scan.controls[i].required_signals # <<>>
        /\ scan.controls[i].cid \notin scan.evaluator_ids
        /\ scan.controls[i].full_id \notin scan.evaluator_ids}

NoRatio == -1

\* coverage_pct is None
NoPct == -1

\* classify_scope_level; affected_pct is given as affected_count * 100, to be
\* read over total_subs.
ClassifyScopeLevel(affected_pct, affected_count, total_subs) ==
    IF total_subs <= 1 THEN "Tenant"
    ELSE IF affected_pct > 80 * total_subs THEN "Tenant"
    ELSE IF affected_pct >= 20 * total_subs \/ affected_count > 2
         THEN "Management Group"
    ELSE "Subscription"

\* classify_pattern, affected_pct as in ClassifyScopeLevel.
ClassifyPattern(affected_pct, affected_count, total_subs) ==
    IF total_subs <= 1
         THEN (IF affected_pct > 0 THEN "Platform Governance Gap" ELSE "None")
    ELSE IF affected_pct > 80 * total_subs THEN "Platform Governance Gap"
    ELSE IF affected_pct >= 20 * total_subs THEN "Moderate Spread"
    ELSE IF affected_count > 0 THEN "Isolated Drift"
    ELSE "None"

\* _extract_subscription_ids_from_evidence: the subscription ids found in
\* the resource ids of the evidence items (NoSub: no id in the resource id).
ExtractSubscriptionIds(evidence) ==
    {evidence[i].resource_id : i \in DOMAIN evidence} \ {NoSub}

\* _build_coverage_display: "c/a compliant", "p% compliant" or None.
BuildCoverageDisplay(coverage_ratio, counts) ==
    IF counts # <<>> /\ counts[2] > 0 THEN <<"counts", counts[1], counts[2]>>
    ELSE IF coverage_ratio # NoRatio THEN <<"pct", coverage_ratio * 10>>
    ELSE <<>>

\* subscriptions_affected of one row
SubscriptionsAffected(r, total_subs, scope_sub_ids) ==
    IF r.status \in {"Fail", "Partial"} THEN
        IF Cardinality(ExtractSubscriptionIds(r.evidence) \cap scope_sub_ids) = 0 THEN
            IF r.coverage_ratio # NoRatio /\ r.coverage_ratio < 100
            THEN Max(1, RoundRatio(total_subs * (100 - r.coverage_ratio), 100, 1))
            ELSE total_subs
        ELSE Cardinality(ExtractSubscriptionIds(r.evidence) \cap scope_sub_ids)
    ELSE IF r.status \in {"Pass", "Manual"} THEN 0
    ELSE Cardinality(ExtractSubscriptionIds(r.evidence) \cap scope_sub_ids)

\* coverage_pct of one row
CoveragePct(r) ==
    IF r.coverage_ratio # NoRatio THEN r.coverage_ratio * 10
    ELSE IF r.status \in {"Fail", "Partial"} THEN 0
    ELSE IF r.status = "Pass" THEN 1000
    ELSE NoPct

\* The "X/Y" counts found in the notes, looked for only when the row has a
\* coverage_ratio.
NoteCounts(r) == IF r.coverage_ratio # NoRatio THEN r.notes ELSE <<>>

\* sample_evidence: the first three evidence items, reduced to their
\* resource_id, summary and type keys.
SampleEvidence(evidence) ==
    [i \in 1..(IF Len(evidence) < 3 THEN Len(evidence) ELSE 3) |->
        [resource_id |-> evidence[i].resource_id]]

\* The computed percentage written under the key of the input ratio.
CoveragePctKeyRatio == "coverage_ratio"

\* r["coverage_pct"] = ...
CoveragePctKey == "coverage_pct"

\* The body of the loop of enrich_results_enterprise: the row with the keys
\* the loop assigns, affected being the subscriptions_affected computed for
\* the row.
EnrichRowWith(r, affected, total_subs) ==
    [k \in DOMAIN r \cup {"subscriptions_assessed", "subscriptions_affected",
                          CoveragePctKey, "coverage_display", "scope_level",
                          "scope_pattern", "sample_evidence"} |->
        CASE k = "subscriptions_assessed" -> total_subs
          [] k = "subscriptions_affected" -> affected
          [] k = CoveragePctKey -> CoveragePct(r)
          [] k = "coverage_display" ->
                BuildCoverageDisplay(r.coverage_ratio, NoteCounts(r))
          [] k = "scope_level" -> ClassifyScopeLevel(affected * 100, affected, total_subs)
          [] k = "scope_pattern" -> ClassifyPattern(affected * 100, affected, total_subs)
          [] k = "sample_evidence" -> SampleEvidence(r.evidence)
          [] OTHER -> r[k]]

\* total_subs = execution_context.get("subscription_count_visible", 1) or 1
TotalSubs(execution_context) ==
    IF execution_context.subscription_count_visible = 0 THEN 1
    ELSE execution_context.subscription_count_visible

\* enrich_results_enterprise(results, execution_context)
EnrichResultsEnterprise(results, execution_context) ==
    [i \in DOMAIN results |->
        EnrichRowWith(results[i],
                      SubscriptionsAffected(results[i], TotalSubs(execution_context),
                                            execution_context.subscription_ids_visible),
                      TotalSubs(execution_context))]

(***************************************************************************)
(* engine/risk_scoring.py: score_control                                   *)
(***************************************************************************)
\* _SEVERITY_WEIGHT.get(severity, 1)
SEVERITY_WEIGHT(severity) ==
    CASE severity = "High" -> 3
      [] severity = "Medium" -> 2
      [] severity = "Low" -> 1
      [] severity = "Info" -> 0
      [] OTHER -> 1

\* _SCOPE_MULTIPLIER.get(scope, 1)
SCOPE_MULTIPLIER(scope) ==
    CASE scope = "Tenant" -> 3
      [] scope = "ManagementGroup" -> 2
      [] scope = "Subscription" -> 1
      [] OTHER -> 1

\* _tier_for_score over _TIER_THRESHOLDS
TierForScore(score) ==
    IF score >= 12 THEN "Critical"
    ELSE IF score >= 6 THEN "High"
    ELSE IF score >= 3 THEN "Medium"
    ELSE "Hygiene"

\* _short_id(control_id)
RiskShortId(control_id) == control_id[1]

\* result.get("scope_level", "Tenant") or "Tenant"
ScopeOf(result) ==
    IF "scope_level" \in DOMAIN result THEN result.scope_level ELSE "Tenant"

\* score_control(result), foundational being _get_foundational()
ScoreControl(result, foundational) ==
    [control_id |-> result.control_id,
     short_id |-> RiskShortId(result.control_id),
     section |-> IF "section" \in DOMAIN result THEN result.section ELSE "",
     severity |-> result.severity,
     status |-> result.status,
     scope_level |-> ScopeOf(result),
     is_foundational |-> RiskShortId(result.control_id) \in foundational,
     risk_score |-> SEVERITY_WEIGHT(result.severity)
                    * SCOPE_MULTIPLIER(ScopeOf(result))
                    * (IF RiskShortId(result.control_id) \in foundational THEN 2 ELSE 1),
     risk_tier |-> TierForScore(
                    SEVERITY_WEIGHT(result.severity)
                    * SCOPE_MULTIPLIER(ScopeOf(result))
                    * (IF RiskShortId(result.control_id) \in foundational THEN 2 ELSE 1))]

(***************************************************************************)
(* SpecEnrich: result rows are enriched and then risk-scored.              *)
(***************************************************************************)
MaxEnrichRows == 2   \* result rows handed to enrich_results_enterprise

\* The control id of the row at each position.
EnrichIds == << <<"aaaaaaaa", "-1">>, <<"bbbbbbbb", "-1">>, <<"aaaaaaaa", "-2">> >>

EvidenceItem(sub) == [resource_id |-> sub, summary |-> "s"]

\* What decides the enrichment of a row: its status, its evidence, its
\* coverage_ratio and the counts in its notes.
EnrichShapes ==
    { [status |-> "Pass", evidence |-> <<>>, coverage_ratio |-> NoRatio, notes |-> <<>>],
      [status |-> "Fail", evidence |-> <<>>, coverage_ratio |-> NoRatio, notes |-> <<>>],
      [status |-> "Fail", evidence |-> <<EvidenceItem(1)>>, coverage_ratio |-> NoRatio,
       notes |-> <<>>],
      [status |-> "Fail", evidence |-> <<EvidenceItem(NoSub)>>, coverage_ratio |-> 50,
       notes |-> <<1, 2>>],
      [status |-> "Partial", evidence |-> <<EvidenceItem(3)>>, coverage_ratio |-> 100,
       notes |-> <<>>],
      [status |-> "Manual", evidence |-> <<>>, coverage_ratio |-> NoRatio, notes |-> <<>>],
      [status |-> "SignalError",
       evidence |-> <<EvidenceItem(1), EvidenceItem(2), EvidenceItem(1), EvidenceItem(2)>>,
       coverage_ratio |-> NoRatio, notes |-> <<>>] }

EnrichSeverities == {"High", "Medium", "Low", "Info"}

\* A result row as the adapter hands it on.
EnrichRow(control_id, sh, sev) ==
    [control_id |-> control_id, status |-> sh.status, severity |-> sev,
     confidence |-> "High", confidence_score |-> 90,
     coverage_ratio |-> sh.coverage_ratio, evidence |-> sh.evidence,
     notes |-> sh.notes]

\* execution_context: subscription_count_visible (0: absent) and
\* subscription_ids_visible.
ExecutionContexts ==
    { [subscription_count_visible |-> 0, subscription_ids_visible |-> {1}],
      [subscription_count_visible |-> 10, subscription_ids_visible |-> {1, 2}] }

\* _load_foundational_ids(): the short ids other controls depend on.
Foundational == {"aaaaaaaa"}

InitEnrich ==
    /\ cache = << >>
    /\ events = <<>>
    /\ now = 0
    /\ log = <<>>
    /\ ctl = <<>>
    /\ thr = Idle
    /\ writes = <<>>
    /\ rows = Idle
    /\ sc = Idle
    /\ scan = Idle
    /\ \E n \in 0..MaxEnrichRows, execution_context \in ExecutionContexts :
        \E sh \in [1..n -> EnrichShapes], sev \in [1..n -> EnrichSeverities] :
          call = [pc |-> "enrich",
                  results |-> [i \in 1..n |-> EnrichRow(EnrichIds[i], sh[i], sev[i])],
                  execution_context |-> execution_context,
                  foundational |-> Foundational,
                  enriched |-> <<>>, risk |-> <<>>]

CallFrame == UNCHANGED <<cache, events, now, log, ctl, thr, writes, rows, sc, scan>>

\* enrich_results_enterprise(results, execution_context)
DoEnrich ==
    /\ call.pc = "enrich"
    /\ call' = [call EXCEPT !.pc = "score",
                   !.enriched = EnrichResultsEnterprise(call.results,
                                                        call.execution_context)]
    /\ CallFrame

\* score_control(r) for every enriched row
DoScoreControls ==
    /\ call.pc = "score"
    /\ call' = [call EXCEPT !.pc = "done",
                   !.risk = [i \in DOMAIN call.enriched |->
                                ScoreControl(call.enriched[i], call.foundational)]]
    /\ CallFrame

NextEnrich == DoEnrich \/ DoScoreControls

SpecEnrich == InitEnrich /\ [][NextEnrich]_vars

ScoringFields == {"status", "severity", "confidence", "confidence_score", "coverage_ratio"}

EnrichmentFields ==
    {"subscriptions_assessed", "subscriptions_affected", "coverage_pct",
     "coverage_display", "scope_level", "scope_pattern", "sample_evidence"}

\* C13: enrich_results_enterprise returns as many rows as it was given, in
\* the same control_id order, with status, severity, confidence,
\* confidence_score and coverage_ratio of every row unchanged; the only keys
\* it adds are the enrichment fields.
C13_EnrichKeepsScoringFields ==
    call.pc # "enrich" =>
        /\ Len(call.enriched) = Len(call.results)
        /\ \A i \in DOMAIN call.results :
              /\ call.enriched[i].control_id = call.results[i].control_id
              /\ \A f \in ScoringFields : call.enriched[i][f] = call.results[i][f]
              /\ DOMAIN call.enriched[i] = DOMAIN call.results[i] \cup EnrichmentFields
              /\ \A f \in DOMAIN call.results[i] :
                    call.enriched[i][f] = call.results[i][f]

\* Two rows were enriched, one of them a failing row with a coverage ratio
\* for which a coverage_pct and a scope level were written.
C13_Witness ==
    /\ call.pc # "enrich"
    /\ Len(call.enriched) = 2
    /\ \E i \in DOMAIN call.enriched :
          /\ call.results[i].status = "Fail"
          /\ call.results[i].coverage_ratio = 50
          /\ call.enriched[i].coverage_pct = 500
          /\ call.enriched[i].scope_level = "Management Group"

\* severity_weight, blast_radius and tiers as the risk formula states them.
StatedSeverityWeight(severity) ==
    CASE severity = "High" -> 3 [] severity = "Medium" -> 2
      [] severity = "Low" -> 1 [] severity = "Info" -> 0

StatedBlastRadius(scope_level) ==
    CASE scope_level = "Tenant" -> 3 [] scope_level = "Management Group" -> 2
      [] scope_level = "Subscription" -> 1

StatedTier(score) ==
    IF score >= 12 THEN "Critical"
    ELSE IF score >= 6 THEN "High"
    ELSE IF score >= 3 THEN "Medium"
    ELSE "Hygiene"

\* C14: the risk_score of every scored row is severity_weight x blast_radius
\* x foundational_weight, the blast radius being that of the scope_level
\* enrich_results_enterprise wrote (Tenant 3, management group 2,
\* Subscription 1), and its tier follows the thresholds 12, 6 and 3.
C14_RiskFormula ==
    call.pc = "done" =>
        \A i \in DOMAIN call.risk :
            /\ call.risk[i].risk_score =
                  StatedSeverityWeight(call.enriched[i].severity)
                  * StatedBlastRadius(call.enriched[i].scope_level)
                  * (IF RiskShortId(call.enriched[i].control_id) \in call.foundational
                       THEN 2 ELSE 1)
            /\ call.risk[i].risk_tier = StatedTier(call.risk[i].risk_score)

\* The same formula over the rows whose scope level is not the management
\* group.
C14_RiskFormulaOffManagementGroup ==
    call.pc = "done" =>
        \A i \in DOMAIN call.risk :
            call.enriched[i].scope_level # "Management Group" =>
                /\ call.risk[i].risk_score =
                      StatedSeverityWeight(call.enriched[i].severity)
                      * StatedBlastRadius(call.enriched[i].scope_level)
                      * (IF RiskShortId(call.enriched[i].control_id) \in call.foundational
                           THEN 2 ELSE 1)
                /\ call.risk[i].risk_tier = StatedTier(call.risk[i].risk_score)

(***************************************************************************)
(* C15: overall maturity against the section maturities.                   *)
(***************************************************************************)
RECURSIVE SumWeightedMaturity(_)
SumWeightedMaturity(sections) ==
    IF sections = <<>> THEN 0
    ELSE (IF Head(sections).maturity_percent = NoMaturity THEN 0
          ELSE Head(sections).automated_controls * Head(sections).maturity_percent)
         + SumWeightedMaturity(Tail(sections))

\* sum(automated_controls * maturity_percent) / sum(automated_controls),
\* to one decimal; 0 without automated controls.
WeightedAverageMaturity(sections) ==
    IF SumAutomated(sections) = 0 THEN 0
    ELSE RoundRatio(SumWeightedMaturity(sections), SumAutomated(sections), 1)

\* C15: overall_maturity_percent is the average of the sections'
\* maturity_percent weighted by their automated_controls, for every result
\* list, rows of differing confidence included.
C15_OverallIsWeightedAverage ==
    sc.done =>
        sc.base.overall_maturity_percent
          = WeightedAverageMaturity(sc.base.section_scores)

EqualConfidence(results) ==
    \A i, j \in DOMAIN results :
        (IsAutomatedItem(results[i]) /\ IsAutomatedItem(results[j])) =>
            EffectiveConfidence(results[i]) = EffectiveConfidence(results[j])

\* What does hold: the two agree when every automated row carries the same
\* effective confidence.
C15_AgreeOnEqualConfidence ==
    (sc.done /\ EqualConfidence(sc.R)) =>
        sc.base.overall_maturity_percent
          = WeightedAverageMaturity(sc.base.section_scores)

(***************************************************************************)
(* C16: automation_integrity.                                              *)
(***************************************************************************)
Abs(x) == IF x >= 0 THEN x ELSE -x

\* integrity is 1 - signal_errors / (automated + signal_errors) to four
\* decimals, 1.0 when there is no SignalError row, and lies in [0, 1].
IntegrityAsStated(cov) ==
    LET automated == cov.automated_controls
        signal_errors == cov.signal_error_controls
        attempted == automated + signal_errors
    IN  /\ cov.automation_integrity >= 0
        /\ cov.automation_integrity <= IntegrityScale
        /\ signal_errors = 0 => cov.automation_integrity = IntegrityScale
        /\ attempted # 0 =>
              2 * Abs(cov.automation_integrity * attempted
                        - (attempted - signal_errors) * IntegrityScale) <= attempted
        /\ (automated = 2 /\ signal_errors = 2) =>
              cov.automation_integrity = IntegrityScale \div 2

\* C16: automation_integrity = 1 - signal_errors / (automated + signal_errors);
\* it is exactly 1.0 when there is no SignalError row, also when no control
\* was attempted, always lies in [0, 1], and is 0.5 for two automated and two
\* SignalError rows.
C16_AutomationIntegrity ==
    sc.done =>
        /\ IntegrityAsStated(sc.base.automation_coverage)
        /\ IntegrityAsStated(sc.with.automation_coverage)

\* Two automated rows and two SignalError rows: integrity 0.5; the same two
\* rows alone: 1.0.
C16_Witness ==
    /\ sc.done
    /\ sc.with.automation_coverage.automated_controls = 2
    /\ sc.with.automation_coverage.signal_error_controls = 2
    /\ sc.with.automation_coverage.automation_integrity = 5000
    /\ sc.base.automation_coverage.signal_error_controls = 0
    /\ sc.base.automation_coverage.automation_integrity = IntegrityScale

(***************************************************************************)
(* most_impactful_gaps (engine/scoring.py).  Rows are dicts whose keys may *)
(* be missing; every lookup of the function is r.get(key[, default]).      *)
(***************************************************************************)
DictGet(r, key, default) == IF key \in DOMAIN r THEN r[key] ELSE default

\* evidence_count of a row without one.
NoCount == -1

\* SEVERITY_WEIGHTS.get(severity, 2); None is a key of the table.
SEVERITY_WEIGHTS(severity) ==
    CASE severity = "Critical" -> 6
      [] severity = "High" -> 5
      [] severity = "Medium" -> 3
      [] severity = "Low" -> 1
      [] severity = "Info" -> 0
      [] severity = None -> 0
      [] OTHER -> 2

\* DOMAIN_WEIGHTS.get(section, 1.0), in tenths.
DOMAIN_WEIGHTS(section) ==
    CASE section = "Security" -> 15
      [] section = "Networking" -> 14
      [] section = "Governance" -> 13
      [] section = "Identity" -> 14
      [] section = "Platform" -> 12
      [] section = "Management" -> 11
      [] section = "Data Protection" -> 13
      [] section = "Resilience" -> 12
      [] OTHER -> 10

\* STATUS_MULTIPLIER.get(status, 0), in tenths.
STATUS_MULTIPLIER(status) ==
    CASE status = "Fail" -> 10
      [] status = "Partial" -> 6
      [] OTHER -> 0

\* The statuses of a gap with SignalError taken for one.
GAP_STATUSES_WithSignalError == {"Fail", "Partial", "SignalError"}

\* status not in ("Fail", "Partial"): continue
GAP_STATUSES == {"Fail", "Partial"}

\* The confidence of a row whose keys may be missing (_effective_confidence).
GapConfidence(r) ==
    EffectiveConfidence([confidence_score |-> DictGet(r, "confidence_score", NoScore),
                         confidence |-> DictGet(r, "confidence", "High")])

\* The entry appended for one Fail or Partial row; risk_score and
\* confidence_score in hundredths.
GapEntry(r) ==
    LET status == DictGet(r, "status", None)
        severity == DictGet(r, "severity", None)
        count == DictGet(r, "evidence_count", NoCount)
        evidence_count == IF count = NoCount THEN 0 ELSE count
        severity_weight == SEVERITY_WEIGHTS(severity)
        domain_weight == DOMAIN_WEIGHTS(DictGet(r, "section", "Unknown"))
        status_multiplier == STATUS_MULTIPLIER(status)
        evidence_factor == 20 + (IF evidence_count < 50 THEN evidence_count ELSE 50)
        confidence == GapConfidence(r)
    IN  [control_id |-> DictGet(r, "control_id", None),
         section |-> DictGet(r, "section", None),
         question |-> DictGet(r, "question", None),
         status |-> status,
         severity |-> severity,
         evidence_count |-> evidence_count,
         confidence_score |-> confidence,
         coverage_ratio |-> DictGet(r, "coverage_ratio", NoRatio),
         risk_score |-> RoundRatio(severity_weight * domain_weight * status_multiplier
                                     * evidence_factor * confidence, 200000, 100),
         notes |-> DictGet(r, "notes", None)]

RECURSIVE CollectGaps(_)
CollectGaps(results) ==
    IF results = <<>> THEN <<>>
    ELSE (IF DictGet(Head(results), "status", None) \notin GAP_STATUSES THEN <<>>
          ELSE <<GapEntry(Head(results))>>)
         \o CollectGaps(Tail(results))

\* gaps.sort(key=risk_score, reverse=True): stable, highest first.
RECURSIVE InsertGap(_, _)
InsertGap(sorted, g) ==
    IF sorted = <<>> THEN <<g>>
    ELSE IF Head(sorted).risk_score < g.risk_score THEN <<g>> \o sorted
         ELSE <<Head(sorted)>> \o InsertGap(Tail(sorted), g)

RECURSIVE SortGaps(_, _)
SortGaps(gaps, acc) ==
    IF gaps = <<>> THEN acc
    ELSE SortGaps(Tail(gaps), InsertGap(acc, Head(gaps)))

\* most_impactful_gaps(results, top_n)
MostImpactfulGaps(results, top_n) ==
    LET gaps == SortGaps(CollectGaps(results), <<>>)
    IN  Returned(SubSeq(gaps, 1, IF top_n < Len(gaps) THEN top_n ELSE Len(gaps)))

(***************************************************************************)
(* SpecGaps: most_impactful_gaps over bounded result lists.                *)
(***************************************************************************)
MaxGapRows == 3     \* rows handed to most_impactful_gaps

DEFAULT_TOP_N == 10

TopNs == {0, 1, DEFAULT_TOP_N}

\* Rows as the pipeline and the tests build them: complete rows, rows of a
\* failed signal with a zero score, rows with an unlisted section and
\* severity, rows with nothing but an id and a status, and a row without a
\* status.
GapRows ==
    [control_id : {"c1"}, status : {"Fail", "Partial", "Pass"},
     section : {"Networking"}, severity : {"High"}, evidence_count : {3},
     confidence_score : {90}]
    \cup
    [control_id : {"c2"}, status : {"Fail", "SignalError", "Error"},
     section : {"Security"}, severity : {"Critical"}, evidence_count : {60},
     confidence_score : {0}]
    \cup
    [control_id : {"c3"}, status : {"Partial", "Manual", "Unknown", "NotApplicable"},
     section : {"Custom"}, severity : {"Urgent"}, evidence_count : {0},
     confidence : {"Medium"}]
    \cup
    [control_id : {"c4"}, status : {"Fail", "SignalError"}]
    \cup
    [control_id : {"c5"}]

InitGaps ==
    /\ cache = << >>
    /\ events = <<>>
    /\ now = 0
    /\ log = <<>>
    /\ ctl = <<>>
    /\ thr = Idle
    /\ writes = <<>>
    /\ rows = Idle
    /\ sc = Idle
    /\ scan = Idle
    /\ \E n \in 0..MaxGapRows, top_n \in TopNs :
        \E results \in [1..n -> GapRows] :
          call = [pc |-> "gaps", results |-> results, top_n |-> top_n,
                  outcome |-> Returned(<<>>)]

\* most_impactful_gaps(results, top_n)
DoMostImpactfulGaps ==
    /\ call.pc = "gaps"
    /\ call' = [call EXCEPT !.pc = "done",
                   !.outcome = MostImpactfulGaps(call.results, call.top_n)]
    /\ CallFrame

NextGaps == DoMostImpactfulGaps

SpecGaps == InitGaps /\ [][NextGaps]_vars

\* C17: most_impactful_gaps returns without raising, returns at most top_n
\* entries, every entry has status Fail or Partial, and the entries are in
\* non-increasing order of risk_score.
C17_GapsContract ==
    call.pc = "done" =>
        /\ call.outcome.kind = "return"
        /\ Len(call.outcome.res) <= call.top_n
        /\ \A k \in DOMAIN call.outcome.res :
              call.outcome.res[k].status \in {"Fail", "Partial"}
        /\ \A k \in DOMAIN call.outcome.res :
              k > 1 => call.outcome.res[k - 1].risk_score
                         >= call.outcome.res[k].risk_score

\* A SignalError row without a section precedes a Partial and a Fail row of
\* lower and higher risk: two entries come back, the Fail row first.
C17_Witness ==
    /\ call.pc = "done"
    /\ Len(call.results) = 3
    /\ DictGet(call.results[1], "status", None) = "SignalError"
    /\ Len(call.outcome.res) = 2
    /\ call.outcome.res[1].status = "Fail"
    /\ call.outcome.res[2].status = "Partial"
    /\ call.outcome.res[1].control_id = call.results[3].control_id
    /\ call.outcome.res[1].risk_score > call.outcome.res[2].risk_score

(***************************************************************************)
(* Workbook status column (reporting/csa_workbook.py).                     *)
(***************************************************************************)
\* _STATUS_MAP.get(raw, "Not verified")
MapStatus(raw) ==
    CASE raw = "Pass" -> "Fulfilled"
      [] raw = "Fail" -> "Open"
      [] raw = "Manual" -> "Not verified"
      [] raw = "Partial" -> "Open"
      [] raw = "Fulfilled" -> "Fulfilled"
      [] raw = "Open" -> "Open"
      [] raw = "Not verified" -> "Not verified"
      [] raw = "Not required" -> "Not required"
      [] raw = "N/A" -> "N/A"
      [] OTHER -> "Not verified"

CD_DATA_START == 10

\* The cells _write_control_detail_rows fills for one control: column I
\* (status) and column O (GUID).
ControlDetailRow(ctrl, row) ==
    [row |-> row,
     status |-> MapStatus(DictGet(ctrl, "status", "Manual")),
     guid |-> DictGet(ctrl, "control_id", "")]

\* _write_control_detail_rows: one sheet row per result from row 10 on.
WriteControlDetailRows(results) ==
    [k \in DOMAIN results |-> ControlDetailRow(results[k], CD_DATA_START + k - 1)]

(***************************************************************************)
(* SpecWorkbook: the Control Details sheet written for a result list.      *)
(***************************************************************************)
MaxSheetRows == 2   \* results written to the sheet

SheetIds == <<"c1", "c2", "c3">>

\* Rows of every status, and a row without one.
SheetStatuses == ControlStatuses \cup {None}

SheetRow(control_id, status) ==
    IF status = None THEN [control_id |-> control_id]
    ELSE [control_id |-> control_id, status |-> status]

InitWorkbook ==
    /\ cache = << >>
    /\ events = <<>>
    /\ now = 0
    /\ log = <<>>
    /\ ctl = <<>>
    /\ thr = Idle
    /\ writes = <<>>
    /\ rows = Idle
    /\ sc = Idle
    /\ scan = Idle
    /\ \E n \in 0..MaxSheetRows :
        \E st \in [1..n -> SheetStatuses] :
          call = [pc |-> "write",
                  results |-> [k \in 1..n |-> SheetRow(SheetIds[k], st[k])],
                  sheet |-> <<>>]

\* _write_control_detail_rows(ws, results, checklist_lookup)
DoWriteControlDetailRows ==
    /\ call.pc = "write"
    /\ call' = [call EXCEPT !.pc = "done",
                   !.sheet = WriteControlDetailRows(call.results)]
    /\ CallFrame

NextWorkbook == DoWriteControlDetailRows

SpecWorkbook == InitWorkbook /\ [][NextWorkbook]_vars

RawStatus(k) == DictGet(call.results[k], "status", "Manual")

\* C18: the workbook renders a SignalError control as
\* "Not verified (Signal failure)", a Manual or Error control as
\* "Not verified", Pass as "Fulfilled" and Fail as "Open".
C18_StatusRendering ==
    call.pc = "done" =>
        \A k \in DOMAIN call.sheet :
            /\ RawStatus(k) = "SignalError" =>
                  call.sheet[k].status = "Not verified (Signal failure)"
            /\ RawStatus(k) \in {"Manual", "Error"} =>
                  call.sheet[k].status = "Not verified"
            /\ RawStatus(k) = "Pass" => call.sheet[k].status = "Fulfilled"
            /\ RawStatus(k) = "Fail" => call.sheet[k].status = "Open"

\* What does hold: Pass, Fail, Manual and Error are rendered as stated, and
\* a SignalError control is rendered like a Manual one.
C18_RenderingAsCoded ==
    call.pc = "done" =>
        \A k \in DOMAIN call.sheet :
            /\ RawStatus(k) \in {"Manual", "Error", "SignalError"} =>
                  call.sheet[k].status = "Not verified"
            /\ RawStatus(k) = "Pass" => call.sheet[k].status = "Fulfilled"
            /\ RawStatus(k) = "Fail" => call.sheet[k].status = "Open"

(***************************************************************************)
(* signals/registry.py: the Defender pricings merge.  An item is one plan  *)
(* of one subscription, [name, tier]; tier None stands for an item without *)
(* a tier.                                                                 *)
(***************************************************************************)
\* str.lower() on the plan names of the inputs.
Lower(name) ==
    CASE name = "VirtualMachines" -> "virtualmachines"
      [] name = "StorageAccounts" -> "storageaccounts"
      [] OTHER -> name

\* str.capitalize() on the tiers of the inputs.
Capitalize(tier) ==
    CASE tier = "standard" -> "Standard"
      [] tier = "free" -> "Free"
      [] OTHER -> tier

\* name and tier as the collection loop reads them from one item.
PlanName(item) == IF item.name = None THEN "" ELSE Lower(item.name)
PlanTier(item) == Capitalize(IF item.tier = None THEN "Free" ELSE item.tier)

\* plan_tiers: the keys in insertion order ...
RECURSIVE PlanOrder(_, _)
PlanOrder(items, seen) ==
    IF items = <<>> THEN <<>>
    ELSE IF PlanName(Head(items)) = "" \/ PlanName(Head(items)) \in seen
         THEN PlanOrder(Tail(items), seen)
         ELSE <<PlanName(Head(items))>> \o
              PlanOrder(Tail(items), seen \cup {PlanName(Head(items))})

\* ... and the tiers collected under one key.
RECURSIVE PlanTiers(_, _)
PlanTiers(items, plan_name) ==
    IF items = <<>> THEN <<>>
    ELSE (IF PlanName(Head(items)) = plan_name THEN <<PlanTier(Head(items))>>
          ELSE <<>>)
         \o PlanTiers(Tail(items), plan_name)

\* worst_tier: Standard if all collected tiers are Standard, else Free.
WorstTier(tiers) ==
    IF \A k \in DOMAIN tiers : tiers[k] = "Standard" THEN "Standard" ELSE "Free"

IsStandard(t) == t = "Standard"

\* One entry of merged_items.
MergedPlan(plan_name, tiers) ==
    [name |-> plan_name,
     tier |-> WorstTier(tiers),
     pricingTier |-> WorstTier(tiers),
     subscriptions_standard |-> Len(SelectSeq(tiers, IsStandard)),
     subscriptions_total |-> Len(tiers)]

IsEnabledPlan(item) == item.tier = "Standard"

\* _merge_defender_pricings
MergeDefenderPricings(results) ==
    LET ok_results == SelectSeq(results, IsOK)
    IN  IF ok_results = <<>> THEN MergeSignalResults(results)
        ELSE
            LET items == ConcatItems(ok_results)
                order == PlanOrder(items, {})
                merged_items == [k \in DOMAIN order |->
                                    MergedPlan(order[k], PlanTiers(items, order[k]))]
                plans_total == Len(merged_items)
                plans_enabled == Len(SelectSeq(merged_items, IsEnabledPlan))
            IN  SignalResult("defender:pricings", "OK", merged_items,
                    [plans_total |-> plans_total,
                     plans_enabled |-> plans_enabled,
                     coverage |-> [applicable |-> plans_total,
                                   compliant |-> plans_enabled,
                                   ratio |-> RoundRatio(plans_enabled,
                                                        Max(plans_total, 1), 10000)],
                     _subscriptions_assessed |-> Len(ok_results)],
                    <<>>, SumMs(results))

\* fetch_defender_pricings(sub) as the environment answers it.
FetchAnswer(answer, sub) ==
    CASE answer.out = "OK" ->
            Returned(SignalResult("defender:pricings", "OK", answer.items,
                                  EmptyRaw, <<>>, CallMs))
      [] answer.out = "Error" ->
            Returned(SignalResult("defender:pricings", "Error", <<>>, EmptyRaw,
                                  <<sub>>, 0))
      [] OTHER -> Raised

\* The body of the as_completed loop for one future.
AnswerCollect(answer, sub_id) ==
    LET f == FetchAnswer(answer, sub_id)
    IN  IF f.kind = "return"
        THEN [f.res EXCEPT !.raw._subscription_id = sub_id]
        ELSE SignalResult("", "Error", <<>>,
                          [EmptyRaw EXCEPT !._subscription_id = sub_id],
                          <<sub_id>>, 0)

\* _multi_sub_provider(fetch_defender_pricings,
\*                     merge_fn=_merge_defender_pricings)._inner
PricingsProvider(answers, rev, subs) ==
    IF subs = <<>> THEN Returned(NoSubscriptions(""))
    ELSE IF Len(subs) = 1 THEN
        LET f == FetchAnswer(answers[subs[1]], subs[1])
        IN  IF f.kind = "raise" THEN Raised
            ELSE Returned([f.res EXCEPT !.raw._subscription_id = subs[1]])
    ELSE
        LET done == IF rev THEN Reverse(subs) ELSE subs
            results == [i \in DOMAIN done |-> AnswerCollect(answers[done[i]], done[i])]
        IN  Returned(MergeDefenderPricings(results))

(***************************************************************************)
(* SpecPricings: defender:pricings fetched over a scope of subscriptions.  *)
(***************************************************************************)
MaxPricingSubs == 2     \* subscriptions in the scope

PlanItem(name, tier) == [name |-> name, tier |-> tier]

\* What one subscription reports: the first plan at any tier spelling, with
\* no tier, or not at all; the second plan at Standard, Free, or not at all.
PricingItemLists ==
    { a \o b :
        a \in {<<>>} \cup {<<PlanItem("VirtualMachines", t)>> :
                              t \in {"Standard", "standard", "Free", None}},
        b \in {<<>>} \cup {<<PlanItem("StorageAccounts", t)>> :
                              t \in {"Standard", "Free"}} }

PricingAnswers ==
    {[out |-> o, items |-> <<>>] : o \in {"Error", "Raise"}}
    \cup {[out |-> "OK", items |-> it] : it \in PricingItemLists}

InitPricings ==
    /\ cache = << >>
    /\ events = <<>>
    /\ now = 0
    /\ log = <<>>
    /\ ctl = <<>>
    /\ thr = Idle
    /\ writes = <<>>
    /\ rows = Idle
    /\ sc = Idle
    /\ scan = Idle
    /\ \E n \in 0..MaxPricingSubs, rev \in BOOLEAN :
        \E answers \in [1..n -> PricingAnswers] :
          /\ rev => n > 1
          /\ call = [pc |-> "fetch", subs |-> [k \in 1..n |-> k],
                     answers |-> answers, rev |-> rev, outcome |-> Raised]

\* provider(scope) of defender:pricings
DoFetchPricings ==
    /\ call.pc = "fetch"
    /\ call' = [call EXCEPT !.pc = "done",
                   !.outcome = PricingsProvider(call.answers, call.rev, call.subs)]
    /\ CallFrame

NextPricings == DoFetchPricings

SpecPricings == InitPricings /\ [][NextPricings]_vars

\* The subscription answered and holds the plan at Standard tier.
HoldsStandard(answer, plan_name) ==
    /\ answer.out = "OK"
    /\ \E k \in DOMAIN answer.items :
          /\ PlanName(answer.items[k]) = plan_name
          /\ PlanTier(answer.items[k]) = "Standard"

ReportsPlan(answer, plan_name) ==
    /\ answer.out = "OK"
    /\ \E k \in DOMAIN answer.items : PlanName(answer.items[k]) = plan_name

MergedOverSeveral ==
    /\ call.pc = "done"
    /\ Len(call.subs) >= 2
    /\ call.outcome.kind = "return"
    /\ call.outcome.res.status = "OK"

\* C19: over two or more subscriptions a plan's merged tier is "Standard"
\* only if every subscription in scope holds the plan at Standard; if any
\* subscription reports a lower tier, does not report the plan, or failed,
\* the merged tier is "Free".
C19_TierIsWorstCase ==
    MergedOverSeveral =>
        \A k \in DOMAIN call.outcome.res.items :
            LET plan == call.outcome.res.items[k]
                everywhere == \A s \in DOMAIN call.answers :
                                 HoldsStandard(call.answers[s], plan.name)
            IN  /\ plan.tier = "Standard" => everywhere
                /\ ~everywhere => plan.tier = "Free"

\* What does hold: the merged tier is the worst tier among the subscriptions
\* that answered and report the plan.
C19_WorstAmongReporting ==
    MergedOverSeveral =>
        \A k \in DOMAIN call.outcome.res.items :
            LET plan == call.outcome.res.items[k]
                reporting == {s \in DOMAIN call.answers :
                                 ReportsPlan(call.answers[s], plan.name)}
            IN  plan.tier = IF \A s \in reporting :
                                  HoldsStandard(call.answers[s], plan.name)
                            THEN "Standard" ELSE "Free"

(***************************************************************************)
(* signals/registry.py: the workspace topology merge.                      *)
(***************************************************************************)
RECURSIVE MinOf(_)
MinOf(values) ==
    IF Len(values) = 1 THEN values[1]
    ELSE LET m == MinOf(Tail(values))
         IN  IF Head(values) <= m THEN Head(values) ELSE m

\* all(d.get(key, False) for d in ok_raws)
AllTrue(ok_raws, key) ==
    \A i \in DOMAIN ok_raws : DictGet(ok_raws[i], key, FALSE)

HasRetention(d) == DictGet(d, "max_retention_days", 0) # 0

\* retentions: the values that are present and not 0.
Retentions(ok_raws) ==
    LET held == SelectSeq(ok_raws, HasRetention)
    IN  [i \in DOMAIN held |-> held[i].max_retention_days]

\* _merge_workspace_topology
MergeWorkspaceTopology(results) ==
    LET base == MergeSignalResults(results)
    IN  IF base.status # "OK" THEN base
        ELSE
            LET ok_results == SelectSeq(results, IsOK)
                ok_raws == [i \in DOMAIN ok_results |-> ok_results[i].raw]
                retentions == Retentions(ok_raws)
                written == BoolKeys \cup
                           (IF retentions # <<>> THEN {"max_retention_days"} ELSE {})
            IN  [base EXCEPT !.raw =
                    [key \in written |->
                        IF key \in BoolKeys THEN AllTrue(ok_raws, key)
                        ELSE MinOf(retentions)]
                    @@ base.raw]

\* fetch_workspace_topology(sub) as the environment answers it.
FetchTopology(answer, sub) ==
    CASE answer.out = "OK" ->
            Returned(SignalResult("monitor:workspace_topology", "OK", <<sub>>,
                                  EmptyRaw @@ answer.raw, <<>>, CallMs))
      [] answer.out = "Error" ->
            Returned(SignalResult("monitor:workspace_topology", "Error", <<>>,
                                  EmptyRaw, <<sub>>, 0))
      [] OTHER -> Raised

\* The body of the as_completed loop for one future.
TopologyCollect(answer, sub_id) ==
    LET f == FetchTopology(answer, sub_id)
    IN  IF f.kind = "return"
        THEN [f.res EXCEPT !.raw._subscription_id = sub_id]
        ELSE SignalResult("", "Error", <<>>,
                          [EmptyRaw EXCEPT !._subscription_id = sub_id],
                          <<sub_id>>, 0)

\* _multi_sub_provider(fetch_workspace_topology,
\*                     merge_fn=_merge_workspace_topology)._inner
TopologyProvider(answers, rev, subs) ==
    IF subs = <<>> THEN Returned(NoSubscriptions(""))
    ELSE IF Len(subs) = 1 THEN
        LET f == FetchTopology(answers[subs[1]], subs[1])
        IN  IF f.kind = "raise" THEN Raised
            ELSE Returned([f.res EXCEPT !.raw._subscription_id = subs[1]])
    ELSE
        LET done == IF rev THEN Reverse(subs) ELSE subs
            results == [i \in DOMAIN done |->
                           TopologyCollect(answers[done[i]], done[i])]
        IN  Returned(MergeWorkspaceTopology(results))

(***************************************************************************)
(* SpecTopology: monitor:workspace_topology fetched over a scope of        *)
(* subscriptions.                                                          *)
(***************************************************************************)
MaxTopologySubs == 2    \* subscriptions in the scope

RetentionDays == {0, 30, 90}

\* The raw dict of one subscription: every key present, or the retention
\* missing, or nothing but the workspace count.
TopologyRaws ==
    [is_centralized : BOOLEAN, sentinel_enabled : BOOLEAN,
     max_retention_days : RetentionDays]
    \cup [is_centralized : BOOLEAN, sentinel_enabled : BOOLEAN]
    \cup [workspace_count : {0}]

TopologyAnswers ==
    {[out |-> o, raw |-> [workspace_count |-> 0]] : o \in {"Error", "Raise"}}
    \cup {[out |-> "OK", raw |-> d] : d \in TopologyRaws}

InitTopology ==
    /\ cache = << >>
    /\ events = <<>>
    /\ now = 0
    /\ log = <<>>
    /\ ctl = <<>>
    /\ thr = Idle
    /\ writes = <<>>
    /\ rows = Idle
    /\ sc = Idle
    /\ scan = Idle
    /\ \E n \in 0..MaxTopologySubs, rev \in BOOLEAN :
        \E answers \in [1..n -> TopologyAnswers] :
          /\ rev => n > 1
          /\ call = [pc |-> "fetch", subs |-> [k \in 1..n |-> k],
                     answers |-> answers, rev |-> rev, outcome |-> Raised]

\* provider(scope) of monitor:workspace_topology
DoFetchTopology ==
    /\ call.pc = "fetch"
    /\ call' = [call EXCEPT !.pc = "done",
                   !.outcome = TopologyProvider(call.answers, call.rev, call.subs)]
    /\ CallFrame

NextTopology == DoFetchTopology

SpecTopology == InitTopology /\ [][NextTopology]_vars

\* The subscriptions that answered OK.
OkSubs == {s \in DOMAIN call.answers : call.answers[s].out = "OK"}

\* The least of a non-empty set of numbers.
Least(S) == CHOOSE x \in S : \A y \in S : x <= y

\* C20: over two or more subscriptions is_centralized and sentinel_enabled
\* of the merged result are true only if true in every OK subscription, and
\* the merged max_retention_days is the minimum over all OK subscriptions,
\* those whose value is 0 or absent included.
C20_WorstCaseTopology ==
    MergedOverSeveral =>
        LET raw == call.outcome.res.raw
        IN  /\ raw.is_centralized =>
                 \A s \in OkSubs : DictGet(call.answers[s].raw, "is_centralized", FALSE)
            /\ raw.sentinel_enabled =>
                 \A s \in OkSubs : DictGet(call.answers[s].raw, "sentinel_enabled", FALSE)
            /\ DictGet(raw, "max_retention_days", 0)
                 = Least({DictGet(call.answers[s].raw, "max_retention_days", 0) :
                             s \in OkSubs})

\* What does hold: the booleans are the AND over the OK subscriptions, and
\* max_retention_days is the minimum over the OK subscriptions that report a
\* retention other than 0 (0 when none does).
C20_TopologyAsCoded ==
    MergedOverSeveral =>
        LET raw == call.outcome.res.raw
            positive == {DictGet(call.answers[s].raw, "max_retention_days", 0) :
                            s \in OkSubs} \ {0}
        IN  /\ raw.is_centralized <=>
                 \A s \in OkSubs : DictGet(call.answers[s].raw, "is_centralized", FALSE)
            /\ raw.sentinel_enabled <=>
                 \A s \in OkSubs : DictGet(call.answers[s].raw, "sentinel_enabled", FALSE)
            /\ DictGet(raw, "max_retention_days", 0)
                 = IF positive = {} THEN 0 ELSE Least(positive)

(***************************************************************************)
(* SpecRawMerge: _merge_raw_dicts over the raw dicts of the OK results of  *)
(* one fan-out.                                                            *)
(***************************************************************************)
MaxRawDicts == 2    \* raw dicts merged

\* What a subscription reports: policy compliance (a subscription without
\* resources reports 0 of 0, at 0 or at 100 percent), a diagnostics sample,
\* or a coverage block.
ProviderRaws ==
    {[total_resources |-> t[1], noncompliant_resources |-> t[2],
      compliance_percent |-> t[3]] :
        t \in {<<0, 0, 0>>, <<0, 0, 1000>>, <<4, 1, 750>>, <<4, 4, 0>>, <<3, 0, 1000>>}}
    \cup
    {[sample_size |-> t[1], diag_enabled_count |-> t[2],
      diag_coverage_percent |-> t[3]] :
        t \in {<<0, 0, 0>>, <<2, 1, 500>>, <<2, 2, 1000>>, <<3, 1, 333>>}}
    \cup
    {[coverage |-> [applicable |-> t[1], compliant |-> t[2], ratio |-> t[3]]] :
        t \in {<<0, 0, 0>>, <<10, 5, 5000>>, <<20, 15, 7500>>}}

InitRawMerge ==
    /\ cache = << >>
    /\ events = <<>>
    /\ now = 0
    /\ log = <<>>
    /\ ctl = <<>>
    /\ thr = Idle
    /\ writes = <<>>
    /\ rows = Idle
    /\ sc = Idle
    /\ scan = Idle
    /\ \E n \in 0..MaxRawDicts :
        \E d \in [1..n -> ProviderRaws] :
          call = [pc |-> "merge",
                  raw_list |-> [k \in 1..n |->
                                   [EmptyRaw EXCEPT !._subscription_id = k] @@ d[k]],
                  merged |-> EmptyRaw]

\* _merge_raw_dicts(raw_list)
DoMergeRawDicts ==
    /\ call.pc = "merge"
    /\ call' = [call EXCEPT !.pc = "done", !.merged = MergeRawDicts(call.raw_list)]
    /\ CallFrame

NextRawMerge == DoMergeRawDicts

SpecRawMerge == InitRawMerge /\ [][NextRawMerge]_vars

MergedSeveralRaws == call.pc = "done" /\ Len(call.raw_list) >= 2

\* The merged percent field is the value computed from the summed counts
\* where the summed denominator is positive, and is at most 100.
PercentRecomputed(pf, recomputed, denom_field) ==
    pf \in DOMAIN call.merged =>
        /\ call.merged[pf] <= 1000
        /\ SumKey(call.raw_list, denom_field) > 0 => call.merged[pf] = recomputed

CoverageRecomputed ==
    "coverage" \in DOMAIN call.merged =>
        /\ call.merged.coverage.applicable = SumCoverage(call.raw_list, "applicable")
        /\ call.merged.coverage.compliant = SumCoverage(call.raw_list, "compliant")
        /\ call.merged.coverage.ratio =
              RoundRatio(SumCoverage(call.raw_list, "compliant"),
                         Max(SumCoverage(call.raw_list, "applicable"), 1), 10000)

CompliancePercentOfSums ==
    IF SumKey(call.raw_list, "total_resources") = 0 THEN 0
    ELSE RoundRatio(SumKey(call.raw_list, "total_resources")
                      - SumKey(call.raw_list, "noncompliant_resources"),
                    SumKey(call.raw_list, "total_resources"), 1000)

DiagPercentOfSums ==
    IF SumKey(call.raw_list, "sample_size") = 0 THEN 0
    ELSE RoundRatio(SumKey(call.raw_list, "diag_enabled_count"),
                    SumKey(call.raw_list, "sample_size"), 1000)

\* C21: merging two or more raw dicts, coverage is summed and its ratio
\* recomputed as compliant / max(applicable, 1), and compliance_percent and
\* diag_coverage_percent are recomputed from the summed counts for every
\* input, a summed denominator of 0 included, so that no merged percentage
\* exceeds 100.
C21_RatiosRecomputed ==
    MergedSeveralRaws =>
        /\ CoverageRecomputed
        /\ PercentRecomputed("compliance_percent", CompliancePercentOfSums,
                             "total_resources")
        /\ PercentRecomputed("diag_coverage_percent", DiagPercentOfSums,
                             "sample_size")

\* What does hold: coverage is always recomputed, and a percent field is
\* recomputed when its summed denominator is positive; otherwise it is the
\* sum of the inputs' percentages.
C21_RecomputedOverPositiveDenominator ==
    MergedSeveralRaws =>
        /\ CoverageRecomputed
        /\ "compliance_percent" \in DOMAIN call.merged =>
              call.merged.compliance_percent =
                  IF SumKey(call.raw_list, "total_resources") > 0
                  THEN CompliancePercentOfSums
                  ELSE SumKey(call.raw_list, "compliance_percent")
        /\ "diag_coverage_percent" \in DOMAIN call.merged =>
              call.merged.diag_coverage_percent =
                  IF SumKey(call.raw_list, "sample_size") > 0
                  THEN DiagPercentOfSums
                  ELSE SumKey(call.raw_list, "diag_coverage_percent")

(***************************************************************************)
(* SpecMerge: a merge function applied to the per-subscription results of  *)
(* one fan-out, in the order of the subscriptions and in another order of  *)
(* completion.                                                             *)
(***************************************************************************)
MaxMergeResults == 2    \* per-subscription results merged

MergeFns == {"merge_signal_results", "merge_defender_pricings",
             "merge_workspace_topology"}

\* raw of a result of the generic family: nothing, a policy summary, or a
\* coverage block.
GenericRaws ==
    {[k \in {} |-> 0],
     [total_resources |-> 4, noncompliant_resources |-> 1, compliance_percent |-> 750],
     [coverage |-> [applicable |-> 10, compliant |-> 5, ratio |-> 5000]]}

\* What one subscription's call can come to in the generic family: OK with
\* or without items, Error with or without a message, NotAvailable.
GenericAnswers ==
    [out : {"OK"}, has_items : BOOLEAN, raw : GenericRaws, has_msg : {FALSE}]
    \cup [out : {"Error"}, has_items : {FALSE}, raw : {[k \in {} |-> 0]},
          has_msg : BOOLEAN]
    \cup [out : {"NotAvailable"}, has_items : {FALSE}, raw : {[k \in {} |-> 0]},
          has_msg : {TRUE}]

\* The result of the future of one subscription, tagged with its id.
GenericCollect(answer, sub) ==
    SignalResult(IF answer.out = "Error" THEN "" ELSE "policy:compliance_summary",
                 answer.out,
                 IF answer.has_items THEN <<sub>> ELSE <<>>,
                 [EmptyRaw EXCEPT !._subscription_id = sub] @@ answer.raw,
                 IF answer.has_msg THEN <<sub>> ELSE <<>>,
                 IF answer.out = "OK" THEN CallMs ELSE 0)

AnswersFor(merge_fn) ==
    CASE merge_fn = "merge_defender_pricings" -> PricingAnswers
      [] merge_fn = "merge_workspace_topology" -> TopologyAnswers
      [] OTHER -> GenericAnswers

\* results as the as_completed loop appends them for one subscription.
CollectFor(merge_fn, answer, sub) ==
    CASE merge_fn = "merge_defender_pricings" -> AnswerCollect(answer, sub)
      [] merge_fn = "merge_workspace_topology" -> TopologyCollect(answer, sub)
      [] OTHER -> GenericCollect(answer, sub)

\* merger(results)
Merger(merge_fn, results) ==
    CASE merge_fn = "merge_defender_pricings" -> MergeDefenderPricings(results)
      [] merge_fn = "merge_workspace_topology" -> MergeWorkspaceTopology(results)
      [] OTHER -> MergeSignalResults(results)

\* The orders in which n futures can complete.
CompletionOrders(n) ==
    {p \in [1..n -> 1..n] : \A a, b \in 1..n : p[a] = p[b] => a = b}

InitMerge ==
    /\ cache = << >>
    /\ events = <<>>
    /\ now = 0
    /\ log = <<>>
    /\ ctl = <<>>
    /\ thr = Idle
    /\ writes = <<>>
    /\ rows = Idle
    /\ sc = Idle
    /\ scan = Idle
    /\ \E merge_fn \in MergeFns, n \in 0..MaxMergeResults :
        \E order \in CompletionOrders(n), answers \in [1..n -> AnswersFor(merge_fn)] :
         \E pick \in {[k \in 1..n |-> CollectFor(merge_fn, answers[k], k)]} :
          /\ call = [pc |-> "merge", merge_fn |-> merge_fn,
                     results |-> pick,
                     reordered |-> [k \in 1..n |-> pick[order[k]]],
                     merged |-> SignalResult("", "OK", <<>>, EmptyRaw, <<>>, 0),
                     merged_reordered |-> SignalResult("", "OK", <<>>, EmptyRaw, <<>>, 0)]

\* merger(results) for the two orders of completion
DoMerge ==
    /\ call.pc = "merge"
    /\ call' = [call EXCEPT !.pc = "done",
                   !.merged = Merger(call.merge_fn, call.results),
                   !.merged_reordered = Merger(call.merge_fn, call.reordered)]
    /\ CallFrame

NextMerge == DoMerge

SpecMerge == InitMerge /\ [][NextMerge]_vars

GenericOverSeveral ==
    /\ call.pc = "done"
    /\ call.merge_fn = "merge_signal_results"
    /\ Len(call.results) >= 2

InputsWith(status) == {k \in DOMAIN call.results : call.results[k].status = status}

RECURSIVE ItemsOfOK(_)
ItemsOfOK(results) ==
    IF results = <<>> THEN <<>>
    ELSE (IF Head(results).status = "OK" THEN Head(results).items ELSE <<>>)
         \o ItemsOfOK(Tail(results))

RECURSIVE MessagesOf(_)
MessagesOf(results) ==
    IF results = <<>> THEN <<>>
    ELSE Head(results).error_msg \o MessagesOf(Tail(results))

\* C22: merging two or more results, all-Error inputs give status Error with
\* the inputs' messages concatenated; mixed inputs give status OK, the items
\* of the OK inputs, _subscriptions_assessed = number of OK inputs and
\* _subscription_errors = number of failed inputs; the merged status is OK
\* exactly when at least one input is OK.
C22_GenericMergeStatus ==
    GenericOverSeveral =>
        /\ call.merged.status = "OK" <=> InputsWith("OK") # {}
        /\ InputsWith("Error") = DOMAIN call.results =>
              /\ call.merged.status = "Error"
              /\ call.merged.error_msg = MessagesOf(call.results)
        /\ InputsWith("OK") # {} =>
              /\ call.merged.items = ItemsOfOK(call.results)
              /\ call.merged.raw._subscriptions_assessed = Cardinality(InputsWith("OK"))
              /\ call.merged.raw._subscription_errors = Cardinality(InputsWith("Error"))

\* An OK and an Error input: status OK, the OK input's item, one assessed,
\* one error.
C22_Witness ==
    /\ GenericOverSeveral
    /\ call.results[1].status = "Error"
    /\ call.results[2].status = "OK"
    /\ call.merged.status = "OK"
    /\ call.merged.items = <<2>>
    /\ call.merged.raw._subscriptions_assessed = 1
    /\ call.merged.raw._subscription_errors = 1

\* A second case of C22: two Error inputs merge to Error with both messages.
C22_WitnessAllError ==
    /\ GenericOverSeveral
    /\ call.results[1].status = "Error"
    /\ call.results[2].status = "Error"
    /\ call.merged.status = "Error"
    /\ call.merged.error_msg = <<1, 2>>

ListKeys == {"_per_subscription"}

\* Two lists with the same elements, order aside.
SameElements(a, b) ==
    /\ Len(a) = Len(b)
    /\ \A k \in DOMAIN a :
          Cardinality({j \in DOMAIN a : a[j] = a[k]})
            = Cardinality({j \in DOMAIN b : b[j] = a[k]})

\* Two raw dicts equal key by key, lists compared order aside, the keys in
\* skip left out.
SameRaw(a, b, skip) ==
    /\ DOMAIN a = DOMAIN b
    /\ \A key \in DOMAIN a \ skip :
          IF key \in ListKeys THEN SameElements(a[key], b[key])
          ELSE a[key] = b[key]

MergedSeveralResults == call.pc = "done" /\ Len(call.results) >= 2

\* C29: the merged result of a fan-out does not depend on the order in
\* which the per-subscription calls complete: for every permutation of the
\* same results the merged status and the merged raw dict are the same,
\* order inside lists aside, for the generic and the specialized merges.
C29_MergeOrderIndependent ==
    MergedSeveralResults =>
        /\ call.merged.status = call.merged_reordered.status
        /\ SameRaw(call.merged.raw, call.merged_reordered.raw, {})

\* What does hold: status and raw are the same for every order except for
\* raw._subscription_id, which is that of the first OK result to complete.
C29_SameButSubscriptionId ==
    MergedSeveralResults =>
        /\ call.merged.status = call.merged_reordered.status
        /\ SameRaw(call.merged.raw, call.merged_reordered.raw, {"_subscription_id"})

(***************************************************************************)
(* C23: the cache_hit flag of a control's telemetry.                       *)
(***************************************************************************)
\* SpecWarm: one evaluate_control call on a bus on which an earlier control
\* has fetched resource_graph:vnets.
InitWarm ==
    /\ now = 0
    /\ log = <<>>
    /\ ctl = <<>>
    /\ thr = Idle
    /\ writes = <<>>
    /\ rows = Idle
    /\ sc = Idle
    /\ scan = Idle
    /\ call = Idle
    /\ \E scope \in EvalScopes :
        \E beh \in Relevant("resource_graph:vnets", scope) :
         \E f \in {Fetch(<< >>, <<>>, 0, "resource_graph:vnets", scope,
                         NoFreshness, beh)} :
            /\ f.ret.kind = "return"
            /\ cache = f.cache
            /\ events = f.events

SpecWarm == InitWarm /\ [][NextEval]_vars

\* C23: telemetry.cache_hit of an evaluate_control result is true only if
\* the control fetched at least one signal and every fetch it performed was
\* served from the cache; a cache miss or an unknown-signal error among its
\* fetches, or no fetch at all, makes it false.
C23_CacheHitMeansAllHits ==
    \A i \in DOMAIN ctl :
        (ctl[i].ret.kind = "return" /\ ctl[i].ret.res.telemetry.cache_hit) =>
            /\ ctl[i].fetches # <<>>
            /\ \A k \in DOMAIN ctl[i].fetches : ctl[i].fetches[k].outcome = "hit"

\* What does hold: with cache_hit true no fetch of the control was a cache
\* miss; fetches of unknown signals and controls without fetches pass.
C23_CacheHitMeansNoMiss ==
    \A i \in DOMAIN ctl :
        (ctl[i].ret.kind = "return" /\ ctl[i].ret.res.telemetry.cache_hit) =>
            \A k \in DOMAIN ctl[i].fetches : ctl[i].fetches[k].outcome # "miss"

\* The unknown-signal clause alone: with cache_hit true no fetch of the
\* control came back as an unknown signal.  It fails for a control with one
\* signal served from the cache and one unknown signal.
C23_HitBesideUnknown ==
    \A i \in DOMAIN ctl :
        (ctl[i].ret.kind = "return" /\ ctl[i].ret.res.telemetry.cache_hit) =>
            \A k \in DOMAIN ctl[i].fetches : ctl[i].fetches[k].outcome # "unknown"

(***************************************************************************)
(* C27: a failed source is not retried within the run.                     *)
(***************************************************************************)
SameKey(i, j) ==
    /\ log[i].signal = log[j].signal
    /\ SameScope(log[i].scope, log[j].scope)

\* Fetch i put an Error result of the provider into the cache.
CachedError(i) ==
    /\ log[i].outcome = "miss"
    /\ log[i].ret.res.status = "Error"

\* C27: after a fetch whose provider result is Error, every later fetch of
\* the same signal and scope within the freshness window returns that
\* cached Error and does not invoke the provider again.
C27_ErrorResultCached ==
    \A i, j \in DOMAIN log :
        ( /\ i < j
          /\ CachedError(i)
          /\ SameKey(i, j)
          /\ \A k \in (i + 1)..j : SameKey(i, k) => InWindow(i, k) )
        => /\ log[j].outcome = "hit"
           /\ ~log[j].dispatched
           /\ log[j].ret = log[i].ret

\* A provider call comes back Error; the next fetch of the signal is a
\* cache hit with that Error result.
C27_Witness ==
    \E i, j \in DOMAIN log :
        /\ i < j
        /\ CachedError(i)
        /\ SameKey(i, j)
        /\ log[j].outcome = "hit"
        /\ log[j].ret.res.status = "Error"
        /\ ~log[j].dispatched

(***************************************************************************)
(* engine/risk_scoring.py: score_all and build_risk_overview               *)
(***************************************************************************)
\* _RISK_STATUSES as the docstring of score_all lists them.
RISK_STATUSES_Docstring == {"Fail", "Partial", "SignalError"}

\* _RISK_STATUSES
RISK_STATUSES == {"Fail", "Partial", "SignalError", "Error"}

RiskTiers == <<"Critical", "High", "Medium", "Hygiene">>

\* The section names of the rows, in the order Python compares str values.
RiskSections == <<"", "Identity", "Network">>

SectionRank(section) == CHOOSE k \in DOMAIN RiskSections : RiskSections[k] = section

\* key=lambda x: (-x["risk_score"], x["section"]): a sorts strictly before b.
RiskKeyBefore(a, b) ==
    \/ a.risk_score > b.risk_score
    \/ /\ a.risk_score = b.risk_score
       /\ SectionRank(a.section) < SectionRank(b.section)

\* list.sort is stable: a row goes behind the rows that do not sort after it.
RECURSIVE InsertScored(_, _)
InsertScored(sorted, x) ==
    IF sorted = <<>> THEN <<x>>
    ELSE IF RiskKeyBefore(x, Head(sorted)) THEN <<x>> \o sorted
         ELSE <<Head(sorted)>> \o InsertScored(Tail(sorted), x)

RECURSIVE SortTier(_, _)
SortTier(tier, acc) ==
    IF tier = <<>> THEN acc
    ELSE SortTier(Tail(tier), InsertScored(acc, Head(tier)))

\* The rows score_all appends to the bucket of one tier, in input order.
RECURSIVE TierRows(_, _, _)
TierRows(results, foundational, tier) ==
    IF results = <<>> THEN <<>>
    ELSE IF Head(results).status \notin RISK_STATUSES
           THEN TierRows(Tail(results), foundational, tier)
         ELSE IF ScoreControl(Head(results), foundational).risk_tier = tier
           THEN <<ScoreControl(Head(results), foundational)>>
                \o TierRows(Tail(results), foundational, tier)
         ELSE TierRows(Tail(results), foundational, tier)

\* score_all(results)
ScoreAll(results, foundational) ==
    [t \in {RiskTiers[k] : k \in DOMAIN RiskTiers} |->
        SortTier(TierRows(results, foundational, t), <<>>)]

\* build_risk_overview(results)
BuildRiskOverview(results, foundational) ==
    [tiers |-> ScoreAll(results, foundational),
     summary |->
        [critical_count |-> Len(ScoreAll(results, foundational)["Critical"]),
         high_count |-> Len(ScoreAll(results, foundational)["High"]),
         medium_count |-> Len(ScoreAll(results, foundational)["Medium"]),
         hygiene_count |-> Len(ScoreAll(results, foundational)["Hygiene"]),
         total_risk_count |->
            Len(ScoreAll(results, foundational)["Critical"])
            + Len(ScoreAll(results, foundational)["High"])
            + Len(ScoreAll(results, foundational)["Medium"])
            + Len(ScoreAll(results, foundational)["Hygiene"])]]

(***************************************************************************)
(* SpecRisk: result rows are risk-scored and bucketed for the report.      *)
(***************************************************************************)
MaxRiskRows == 3   \* result rows handed to build_risk_overview

\* The control id of the row at each position; the first and the last are
\* foundational.
RiskIds ==
    << <<"aaaaaaaa", "-1">>, <<"bbbbbbbb", "-1">>, <<"cccccccc", "-1">>,
       <<"aaaaaaaa", "-2">> >>

\* What decides the scoring of a row: status, severity, scope level, section.
RiskShapes ==
    { [status |-> "Fail", severity |-> "High", scope_level |-> "Tenant",
       section |-> "Identity"],
      [status |-> "Fail", severity |-> "Critical", scope_level |-> "Tenant",
       section |-> "Identity"],
      [status |-> "Partial", severity |-> "Medium", scope_level |-> "Tenant",
       section |-> "Network"],
      [status |-> "SignalError", severity |-> "Low", scope_level |-> "Subscription",
       section |-> "Identity"],
      [status |-> "Error", severity |-> "High", scope_level |-> "Tenant",
       section |-> "Network"],
      [status |-> "Error", severity |-> "High", scope_level |-> "Tenant",
       section |-> ""],
      [status |-> "Fail", severity |-> "Info", scope_level |-> "Tenant",
       section |-> "Identity"],
      [status |-> "Fail", severity |-> "Medium", scope_level |-> "Subscription",
       section |-> "Network"],
      [status |-> "Partial", severity |-> "Critical", scope_level |-> "Subscription",
       section |-> "Identity"],
      [status |-> "Fail", severity |-> "Low", scope_level |-> "Tenant",
       section |-> "Network"],
      [status |-> "Pass", severity |-> "High", scope_level |-> "Tenant",
       section |-> "Identity"],
      [status |-> "Manual", severity |-> "High", scope_level |-> "Tenant",
       section |-> "Network"],
      [status |-> "NotApplicable", severity |-> "Medium", scope_level |-> "Subscription",
       section |-> "Identity"],
      [status |-> "Info", severity |-> "Low", scope_level |-> "Tenant",
       section |-> "Network"] }

RiskRow(control_id, sh) ==
    [control_id |-> control_id, status |-> sh.status, severity |-> sh.severity,
     scope_level |-> sh.scope_level, section |-> sh.section]

InitRisk ==
    /\ cache = << >>
    /\ events = <<>>
    /\ now = 0
    /\ log = <<>>
    /\ ctl = <<>>
    /\ thr = Idle
    /\ writes = <<>>
    /\ rows = Idle
    /\ sc = Idle
    /\ scan = Idle
    /\ \E n \in 0..MaxRiskRows :
        \E sh \in [1..n -> RiskShapes] :
          call = [pc |-> "score",
                  results |-> [i \in 1..n |-> RiskRow(RiskIds[i], sh[i])],
                  foundational |-> Foundational,
                  risk |-> <<>>,
                  overview |-> Idle]

\* score_control(r) for every result row
DoScoreRows ==
    /\ call.pc = "score"
    /\ call' = [call EXCEPT !.pc = "overview",
                   !.risk = [i \in DOMAIN call.results |->
                                ScoreControl(call.results[i], call.foundational)]]
    /\ CallFrame

\* build_risk_overview(results)
DoBuildRiskOverview ==
    /\ call.pc = "overview"
    /\ call' = [call EXCEPT !.pc = "done",
                   !.overview = BuildRiskOverview(call.results, call.foundational)]
    /\ CallFrame

NextRisk == DoScoreRows \/ DoBuildRiskOverview

SpecRisk == InitRisk /\ [][NextRisk]_vars

\* The places (tier, position) at which the row of one control id sits in
\* the buckets.
PlacesOf(tiers, control_id) ==
    {p \in {<<RiskTiers[k], j>> : k \in DOMAIN RiskTiers, j \in 1..MaxRiskRows + 1} :
        /\ p[2] <= Len(tiers[p[1]])
        /\ tiers[p[1]][p[2]].control_id = control_id}

RiskRowsOf(results) ==
    {i \in DOMAIN results :
        results[i].status \in {"Fail", "Partial", "SignalError", "Error"}}

C25_WitnessSkipped ==
    /\ call.pc = "done"
    /\ call.overview.summary.total_risk_count = 2
    /\ \E i \in DOMAIN call.results : call.results[i].status \in {"Pass", "Manual"}

\* Info < Low < Medium < High < Critical
SeverityOrder == <<"Info", "Low", "Medium", "High", "Critical">>

SeverityRank(severity) == CHOOSE k \in DOMAIN SeverityOrder : SeverityOrder[k] = severity

TierRank(tier) == CHOOSE k \in DOMAIN RiskTiers : RiskTiers[k] = tier

\* C30: of two scored rows with the same scope_level and the same
\* foundational flag, the one with the higher severity (Info < Low < Medium
\* < High < Critical) has neither a lower risk_score nor a lower tier.
C30_MonotoneInSeverity ==
    call.pc # "score" =>
        \A i, j \in DOMAIN call.risk :
            ( /\ call.risk[i].scope_level = call.risk[j].scope_level
              /\ call.risk[i].is_foundational = call.risk[j].is_foundational
              /\ SeverityRank(call.risk[i].severity) < SeverityRank(call.risk[j].severity) )
            => /\ call.risk[i].risk_score <= call.risk[j].risk_score
               /\ TierRank(call.risk[i].risk_tier) >= TierRank(call.risk[j].risk_tier)

\* The same over the severities that are keys of _SEVERITY_WEIGHT.
C30_MonotoneBelowCritical ==
    call.pc # "score" =>
        \A i, j \in DOMAIN call.risk :
            ( /\ call.risk[i].scope_level = call.risk[j].scope_level
              /\ call.risk[i].is_foundational = call.risk[j].is_foundational
              /\ call.risk[j].severity # "Critical"
              /\ SeverityRank(call.risk[i].severity) < SeverityRank(call.risk[j].severity) )
            => /\ call.risk[i].risk_score <= call.risk[j].risk_score
               /\ TierRank(call.risk[i].risk_tier) >= TierRank(call.risk[j].risk_tier)


(***************************************************************************)
(* C26: the maturity of a section against its rows.                        *)
(***************************************************************************)
\* The weight of a row: its confidence, and 0.3 where that is less.
FlooredConfidence(r) ==
    LET confidence == IF r.confidence_score # NoScore THEN r.confidence_score
                      ELSE CONFIDENCE_LABEL(r.confidence)
    IN  IF confidence < 30 THEN 30 ELSE confidence

\* Sum of the weights of the rows of one section whose status is in statuses.
RECURSIVE WeightOver(_, _, _)
WeightOver(results, section, statuses) ==
    IF results = <<>> THEN 0
    ELSE (IF Head(results).section = section /\ Head(results).status \in statuses
            THEN FlooredConfidence(Head(results)) ELSE 0)
         + WeightOver(Tail(results), section, statuses)

\* maturity_percent (in tenths of a percent) is num / den as a percentage
\* rounded to one decimal.
IsPercentOf(maturity_percent, num, den) ==
    /\ maturity_percent # NoMaturity
    /\ 2 * Abs(maturity_percent * den - 1000 * num) <= den

MaturityOfSections(scoring, results) ==
    \A k \in DOMAIN scoring.section_scores :
        LET block == scoring.section_scores[k]
            den == WeightOver(results, block.section, {"Pass", "Fail", "Partial", "Info"})
            num == WeightOver(results, block.section, {"Pass"})
        IN  IF \E i \in DOMAIN results :
                  /\ results[i].section = block.section
                  /\ results[i].status \in {"Pass", "Fail", "Partial", "Info"}
            THEN IsPercentOf(block.maturity_percent, num, den)
            ELSE block.maturity_percent = NoMaturity

\* C26: the maturity_percent of a section is the sum of the floored
\* confidences of its Pass rows over the sum of the floored confidences of
\* its Pass, Fail, Partial and Info rows; rows of any other status weigh in
\* neither sum, and a section without a Pass, Fail, Partial or Info row has
\* no maturity_percent.
C26_SectionMaturity ==
    sc.done =>
        /\ MaturityOfSections(sc.base, sc.R)
        /\ MaturityOfSections(sc.with, sc.R \o sc.S)

\* A section holds a Pass row whose confidence is below the floor, a Fail
\* row and a SignalError row, and its maturity is 30 / (30 + 90) = 25.0 %;
\* the other section holds no weighted row and has no maturity.
C26_Witness ==
    /\ sc.done
    /\ \E i, j \in DOMAIN sc.R :
          /\ sc.R[i].status = "Pass" /\ sc.R[i].confidence_score = 10
          /\ sc.R[j].status = "Fail" /\ sc.R[j].confidence_score = 90
          /\ sc.R[i].section = "Networking" /\ sc.R[j].section = "Networking"
    /\ \E i \in DOMAIN sc.S : sc.S[i].section = "Networking"
    /\ \E i \in DOMAIN sc.S : sc.S[i].section = "Identity"
    /\ \E k, m \in DOMAIN sc.with.section_scores :
          /\ sc.with.section_scores[k].section = "Networking"
          /\ sc.with.section_scores[k].maturity_percent = 250
          /\ sc.with.section_scores[m].section = "Identity"
          /\ sc.with.section_scores[m].maturity_percent = NoMaturity


(***************************************************************************)
(* signals/registry.py: SignalBus.fetch_many                               *)
(***************************************************************************)
\* error_msg=str(exc) of a fetch that raised.
MsgRaised == 104

\* max_workers of fetch_many without the cap.
FetchManyWorkersUncapped(n) == n

\* max_workers = min(len(signal_names), 6)
FetchManyWorkers(n) == IF n < 6 THEN n ELSE 6

\* The body of the as_completed loop of fetch_many: the result of the
\* future, or the Error result that stands in for its exception.
FetchManyCollect(f, name) ==
    IF f.ret.kind = "return" THEN f.ret.res
    ELSE SignalResult(name, "Error", <<>>, EmptyRaw, <<MsgRaised>>, 0)

\* results[name] = ...: a name already present is overwritten.
DictSet(d, key, value) ==
    [k \in DOMAIN d \cup {key} |-> IF k = key THEN value ELSE d[k]]

\* The pooled path of fetch_many: the submitted fetches run against the
\* shared bus and complete in the given order; every result is collected.
RECURSIVE FetchManyPool(_, _, _, _, _, _, _, _, _)
FetchManyPool(c, ev, t, signal_names, scope, behs, order, results, fetches) ==
    IF order = <<>> THEN
        [ret |-> Returned(results), cache |-> c, events |-> ev, fetches |-> fetches]
    ELSE
        LET name == signal_names[Head(order)]
            f == Fetch(c, ev, t, name, scope, NoFreshness, behs[Head(order)])
        IN  FetchManyPool(f.cache, f.events, t, signal_names, scope, behs,
                Tail(order), DictSet(results, name, FetchManyCollect(f, name)),
                Append(fetches, FetchRecord(f, name, scope, NoFreshness,
                                            behs[Head(order)], t, Len(ev))))

\* The path of fetch_many for max_workers <= 1: the dict comprehension
\* calls fetch in the caller's thread.
FetchManyInline(c, ev, t, signal_names, scope, behs) ==
    IF signal_names = <<>> THEN
        [ret |-> Returned(<< >>), cache |-> c, events |-> ev, fetches |-> <<>>]
    ELSE
        LET name == signal_names[1]
            f == Fetch(c, ev, t, name, scope, NoFreshness, behs[1])
        IN  [ret |-> IF f.ret.kind = "raise" THEN Raised
                     ELSE Returned(DictSet(<< >>, name, f.ret.res)),
             cache |-> f.cache, events |-> f.events,
             fetches |-> <<FetchRecord(f, name, scope, NoFreshness, behs[1], t,
                                       Len(ev))>>]

\* fetch_many(signal_names, scope)
FetchMany(c, ev, t, signal_names, scope, behs, order) ==
    IF FetchManyWorkers(Len(signal_names)) <= 1
    THEN FetchManyInline(c, ev, t, signal_names, scope, behs)
    ELSE FetchManyPool(c, ev, t, signal_names, scope, behs, order, << >>, <<>>)

(***************************************************************************)
(* SpecMany: one fetch_many call on a fresh bus, over every list of names, *)
(* every behaviour of the providers and every completion order.            *)
(***************************************************************************)
MaxManyNames == 2   \* signal names handed to one fetch_many call

ManyNames == {"policy:assignments", "resource_graph:vnets", UnknownName}

DoFetchMany ==
    /\ log = <<>>
    /\ \E n \in 0..MaxManyNames, scope \in BusScopes :
        \E signal_names \in [1..n -> ManyNames], order \in CompletionOrders(n) :
          \E behs \in {b \in [1..n -> Behaviours] :
                          \A i \in 1..n : b[i] \in Relevant(signal_names[i], scope)} :
            \E m \in {FetchMany(cache, events, now, signal_names, scope, behs, order)} :
               /\ cache' = m.cache
               /\ events' = m.events
               /\ log' = <<[signal_names |-> signal_names, scope |-> scope,
                            ret |-> m.ret, fetches |-> m.fetches]>>
               /\ UNCHANGED <<now, ctl, thr, writes, rows, sc, scan, call>>

NextMany == DoFetchMany

SpecMany == InitBus /\ [][NextMany]_vars

RequestedNames(m) == {m.signal_names[i] : i \in DOMAIN m.signal_names}

\* The last fetch the call made for a name.
LastFetchOf(m, name) ==
    m.fetches[CHOOSE i \in DOMAIN m.fetches :
                 /\ m.fetches[i].signal = name
                 /\ \A j \in DOMAIN m.fetches : m.fetches[j].signal = name => j <= i]

\* What the claim requires of one fetch_many call.
ManyContract(m) ==
    /\ m.ret.kind = "return"
    /\ DOMAIN m.ret.res = RequestedNames(m)
    /\ \A name \in RequestedNames(m) :
          IF LastFetchOf(m, name).ret.kind = "raise"
          THEN /\ m.ret.res[name].status = "Error"
               /\ m.ret.res[name].signal_name = name
               /\ m.ret.res[name].error_msg = <<MsgRaised>>
          ELSE m.ret.res[name] = LastFetchOf(m, name).ret.res

\* C28: fetch_many never raises and returns a map with exactly one entry
\* per requested signal name, whatever the number of names (none, one or
\* several); a name whose fetch raised maps to an Error result carrying the
\* exception message.
C28_FetchManyNeverRaises ==
    \A i \in DOMAIN log : ManyContract(log[i])

\* The same for the calls with no name or with two or more names.
C28_NeverRaisesButForOneName ==
    \A i \in DOMAIN log :
        Len(log[i].signal_names) # 1 => ManyContract(log[i])

\* A call with a single name whose fetch raised.
C28_SingleNameRaised ==
    \E i \in DOMAIN log :
        /\ Len(log[i].signal_names) = 1
        /\ log[i].fetches[1].ret.kind = "raise"
        /\ log[i].ret.kind = "raise"


(***************************************************************************)
(* SpecPool: the threads of one fetch_many call.  The fetches submitted to *)
(* the pool of fetch_many and the provider calls submitted to the pool of  *)
(* each per-subscription fan-out are started by the workers of their pool  *)
(* and finish in any order.  A fetch in flight is <<q, r>>: q provider     *)
(* calls submitted and not started, r provider calls running.              *)
(***************************************************************************)
MaxPoolNames == 7   \* signal names handed to fetch_many
MaxPoolSubs == 9    \* subscriptions of the scope
FewNames == 2       \* names fetched over a scope of up to MaxPoolSubs subscriptions
FewSubs == 3        \* subscriptions under up to MaxPoolNames names

\* max_workers of a fan-out without the cap.
FanOutWorkersUncapped(n_subs) == n_subs

\* max_workers = min(len(subs), 8)
FanOutWorkers(n_subs) == IF n_subs < 8 THEN n_subs ELSE 8

PoolScenarios ==
    {<<n, k>> : n \in 0..MaxPoolNames, k \in 0..FewSubs}
    \cup {<<n, k>> : n \in 0..FewNames, k \in 0..MaxPoolSubs}

InitPool ==
    /\ cache = << >>
    /\ events = <<>>
    /\ now = 0
    /\ log = <<>>
    /\ ctl = <<>>
    /\ writes = <<>>
    /\ rows = Idle
    /\ sc = Idle
    /\ scan = Idle
    /\ call = Idle
    /\ \E sn \in PoolScenarios :
          thr = [names |-> sn[1], subs |-> sn[2], pc |-> "call",
                 queued |-> 0, running |-> << >>, completed |-> 0, collected |-> 0]

PoolFrame == UNCHANGED <<cache, events, now, log, ctl, writes, rows, sc, scan, call>>

\* The fetches in flight, as a bag of <<q, r>>.
BagPut(bag, x) ==
    [y \in DOMAIN bag \cup {x} |-> IF y \in DOMAIN bag /\ y # x THEN bag[y]
                                   ELSE IF y \in DOMAIN bag THEN bag[y] + 1 ELSE 1]

BagTake(bag, x) ==
    IF bag[x] = 1 THEN [y \in DOMAIN bag \ {x} |-> bag[y]]
    ELSE [bag EXCEPT ![x] = bag[x] - 1]

RECURSIVE BagSum(_, _)
BagSum(bag, k) ==
    IF DOMAIN bag = {} THEN 0
    ELSE LET x == CHOOSE y \in DOMAIN bag : TRUE
         IN  bag[x] * (IF k = 0 THEN 1 ELSE x[k])
             + BagSum([y \in DOMAIN bag \ {x} |-> bag[y]], k)

FetchesInFlight == BagSum(thr.running, 0)
CallsInFlight == BagSum(thr.running, 2)

\* fetch_many is entered: max_workers is computed and every name is
\* submitted (or, for max_workers <= 1, left to the dict comprehension).
PoolSubmit ==
    /\ thr.pc = "call"
    /\ thr' = [thr EXCEPT
                 !.pc = IF FetchManyWorkers(thr.names) <= 1 THEN "inline" ELSE "pool",
                 !.queued = thr.names]
    /\ PoolFrame

\* A fetch is started, by a free worker of the pool or by the caller, and
\* is served without a provider call: a cache hit, an unknown signal or a
\* scope without subscriptions.
PoolFetchNoCall ==
    /\ thr.pc \in {"inline", "pool"}
    /\ thr.queued > 0
    /\ FetchesInFlight < FetchManyWorkers(thr.names)
    /\ thr' = [thr EXCEPT !.queued = thr.queued - 1,
                          !.completed = thr.completed + 1]
    /\ PoolFrame

\* A fetch is started and dispatches to its provider: one call in the
\* thread of the fetch (_rg_provider, or a scope of one subscription), or
\* one call per subscription submitted to the pool of the fan-out.
PoolFetchDispatch ==
    /\ thr.pc \in {"inline", "pool"}
    /\ thr.queued > 0
    /\ FetchesInFlight < FetchManyWorkers(thr.names)
    /\ thr.subs > 0
    /\ \E fan_out \in {b \in BOOLEAN : b => thr.subs > 1} :
          thr' = [thr EXCEPT
                    !.queued = thr.queued - 1,
                    !.running = BagPut(thr.running,
                                       IF fan_out THEN <<thr.subs, 0>> ELSE <<0, 1>>)]
    /\ PoolFrame

\* A free worker of a fan-out pool starts a submitted provider call.
PoolCallStart ==
    /\ \E f \in DOMAIN thr.running :
          /\ f[1] > 0
          /\ f[2] < FanOutWorkers(thr.subs)
          /\ thr' = [thr EXCEPT !.running =
                        BagPut(BagTake(thr.running, f), <<f[1] - 1, f[2] + 1>>)]
    /\ PoolFrame

\* A provider call returns or raises.
PoolCallFinish ==
    /\ \E f \in DOMAIN thr.running :
          /\ f[2] > 0
          /\ thr' = [thr EXCEPT !.running =
                        BagPut(BagTake(thr.running, f), <<f[1], f[2] - 1>>)]
    /\ PoolFrame

\* Every call of a fetch is done: the results are merged and the fetch
\* returns or raises.
PoolFetchFinish ==
    /\ <<0, 0>> \in DOMAIN thr.running
    /\ thr' = [thr EXCEPT !.running = BagTake(thr.running, <<0, 0>>),
                          !.completed = thr.completed + 1]
    /\ PoolFrame

\* The result of a completed fetch is stored under its name.
PoolCollect ==
    /\ thr.pc \in {"inline", "pool"}
    /\ thr.collected < thr.completed
    /\ thr' = [thr EXCEPT !.collected = thr.collected + 1]
    /\ PoolFrame

\* Every future was yielded by as_completed: fetch_many returns.
PoolReturn ==
    /\ thr.pc \in {"inline", "pool"}
    /\ thr.collected = thr.names
    /\ thr' = [thr EXCEPT !.pc = "returned"]
    /\ PoolFrame

NextPool ==
    \/ PoolSubmit
    \/ PoolFetchNoCall
    \/ PoolFetchDispatch
    \/ PoolCallStart
    \/ PoolCallFinish
    \/ PoolFetchFinish
    \/ PoolCollect
    \/ PoolReturn

SpecPool == InitPool /\ [][NextPool]_vars

Least2(a, b) == IF a < b THEN a ELSE b

\* C24: during a fetch_many call at most min(number of names, 6) fetches
\* are in flight, every fan-out has at most min(number of subscriptions, 8)
\* provider calls in flight, the provider calls in flight are never more
\* than 48 in all, and the call returns only when every submitted fetch has
\* completed.
C24_BoundedConcurrency ==
    /\ FetchesInFlight <= Least2(thr.names, 6)
    /\ \A f \in DOMAIN thr.running : f[2] <= Least2(thr.subs, 8)
    /\ CallsInFlight <= Least2(thr.names, 6) * Least2(thr.subs, 8)
    /\ CallsInFlight <= 48
    /\ thr.pc = "returned" =>
          /\ thr.completed = thr.names
          /\ thr.queued = 0
          /\ thr.running = << >>

\* Six fetches are in flight while a seventh waits for a worker, and each
\* of the six has all its provider calls running.
C24_Witness ==
    /\ thr.names = 7
    /\ thr.queued = 1
    /\ FetchesInFlight = 6
    /\ thr.subs = 3
    /\ CallsInFlight = 18

\* Eight provider calls of one fan-out are running while a ninth waits for
\* a worker.
C24_WitnessFanOutCap ==
    /\ thr.subs = 9
    /\ <<1, 8>> \in DOMAIN thr.running


====
